---- MODULE Spec2Model ----
(***************************************************************************)
(* A model of the kash_stash queue agent (src/queue_boss.py): the queue    *)
(* worker's claim / execute / publish protocol over local lockfiles and    *)
(* the pod, the handling of a script's result, and the one-shot runner.    *)
(*                                                                         *)
(* Texts (Python str) are sequences of character codes, so that joining,   *)
(* splitting, stripping, prefix tests and base64 are computed as the code  *)
(* computes them.  A str that came out of bytes.decode("utf-8") is held as *)
(* its UTF-8 bytes.                                                        *)
(***************************************************************************)
EXTENDS Integers, Sequences, FiniteSets, TLC

(***************************************************************************)
(* Bounds of the model.                                                    *)
(***************************************************************************)
MaxTicks == 2
MaxRestarts == 1
MaxRefresh == 2
MaxRuns == 2
MaxCalls == 3
MaxNaps == 4
\* The pages the pod holds for a tag query.
SrvPages == 3

(***************************************************************************)
(* Program constants.                                                      *)
(***************************************************************************)
LOCK_DONE_LOOKBACK == 86400
FRESH_LOOKBACK == 60
ANCIENT == 1000000000

(***************************************************************************)
(* Text literals.                                                          *)
(***************************************************************************)
COMMA == 44
DASH == <<45>>
SLASH == <<47>>
LOCK_PATH == <<126, 47, 46, 107, 97, 115, 104, 95, 115, 116, 97, 115, 104, 95, 108, 111, 99, 107, 115>>
LOCK_SUFFIX == <<46, 108, 111, 99, 107>>
PROCESSED_PREFIX == <<112, 114, 111, 99, 101, 115, 115, 101, 100, 45>>
SETUP_KEY == <<115, 101, 116, 117, 112>>
INVALID_B64 == <<91, 73, 110, 118, 97, 108, 105, 100, 32, 98, 97, 115, 101, 54, 52, 32, 114, 101, 115, 117, 108, 116, 93>>
JOB_NAME == <<106, 111, 98>>
QUEUE_TAG == <<113>>
LOCK_TAG == <<106, 111, 98, 45, 108, 111, 99, 107>>
DONE_TAGS_CSV == <<106, 111, 98, 45, 100, 111, 110, 101, 44, 32, 111, 107>>
FAIL_TAGS_CSV == <<106, 111, 98, 45, 102, 97, 105, 108>>
TAG_X == <<120>>
TAG_JOB_DONE == <<106, 111, 98, 45, 100, 111, 110, 101>>
ID41 == <<52, 49>>
ID42 == <<52, 50>>
LOGIC_ID == <<57>>
HELLO == <<104, 101, 108, 108, 111>>
LOOKBACK_2M == <<50, 109>>
LOOKBACK_1D == <<49, 100>>
LOOKBACK_0S == <<48, 115>>
LOOKBACK_2D == <<50, 100>>

(***************************************************************************)
(* Python str operations.                                                  *)
(***************************************************************************)
IsSpace(c) == c \in {32, 9, 10, 11, 12, 13}

RECURSIVE LStrip(_)
LStrip(s) == IF s # <<>> /\ IsSpace(Head(s)) THEN LStrip(Tail(s)) ELSE s

RECURSIVE RStrip(_)
RStrip(s) ==
  IF s # <<>> /\ IsSpace(s[Len(s)]) THEN RStrip(SubSeq(s, 1, Len(s) - 1)) ELSE s

Strip(s) == RStrip(LStrip(s))

StartsWith(s, p) == Len(s) >= Len(p) /\ SubSeq(s, 1, Len(p)) = p


DropFirst(s, n) == SubSeq(s, n + 1, Len(s))

\* s.split(c): the pieces of s between the occurrences of c (at least one piece).
RECURSIVE SplitAcc(_, _, _)
SplitAcc(s, c, cur) ==
  IF s = <<>> THEN <<cur>>
  ELSE IF Head(s) = c THEN <<cur>> \o SplitAcc(Tail(s), c, <<>>)
  ELSE SplitAcc(Tail(s), c, Append(cur, Head(s)))

Split(s, c) == SplitAcc(s, c, <<>>)

\* sep.join(items)
RECURSIVE Join(_, _)
Join(items, sep) ==
  IF items = <<>> THEN <<>>
  ELSE IF Len(items) = 1 THEN items[1]
  ELSE items[1] \o <<sep>> \o Join(Tail(items), sep)

IsDigit(c) == c \in 48..57

IsDigits(s) == s # <<>> /\ \A i \in 1..Len(s) : IsDigit(s[i])

RECURSIVE ParseInt(_)
ParseInt(s) == IF s = <<>> THEN 0 ELSE 10 * ParseInt(SubSeq(s, 1, Len(s) - 1)) + (s[Len(s)] - 48)

Range(s) == {s[i] : i \in 1..Len(s)}

\* parse_tags on a str: the stripped, non-empty comma-separated items.
parse_tags(s) ==
  IF s = <<>> THEN <<>>
  ELSE LET items == Split(s, COMMA)
           stripped == [i \in 1..Len(items) |-> Strip(items[i])]
       IN SelectSeq(stripped, LAMBDA t : t # <<>>)

\* The unit table of lookback_to_seconds.
UnitMult(c) ==
  CASE c = 115 -> 1
    [] c = 109 -> 60
    [] c = 104 -> 3600
    [] c = 100 -> 86400
    [] c = 119 -> 604800
    [] OTHER -> 0

\* lookback_to_seconds for the integer forms ("120", "2m", "1d"); -1 stands for
\* the ValueError of an unparseable text.
lookback_to_seconds(lb) ==
  IF IsDigits(lb) THEN ParseInt(lb)
  ELSE IF lb # <<>> /\ UnitMult(lb[Len(lb)]) # 0 /\ IsDigits(SubSeq(lb, 1, Len(lb) - 1))
       THEN ParseInt(SubSeq(lb, 1, Len(lb) - 1)) * UnitMult(lb[Len(lb)])
  ELSE -1

queue_lockfile_name(job, key) == LOCK_PATH \o SLASH \o job \o DASH \o key \o LOCK_SUFFIX

(***************************************************************************)
(* base64 and UTF-8, as base64.b64encode / base64.b64decode (non-strict    *)
(* binascii.a2b_base64) and bytes.decode("utf-8") compute them.            *)
(***************************************************************************)
B64_PAD == 61

B64Char(v) ==
  IF v < 26 THEN 65 + v
  ELSE IF v < 52 THEN 97 + (v - 26)
  ELSE IF v < 62 THEN 48 + (v - 52)
  ELSE IF v = 62 THEN 43
  ELSE 47

\* table_a2b_base64: the value of an alphabet character, 64 for any other.
B64Val(c) ==
  IF c \in 65..90 THEN c - 65
  ELSE IF c \in 97..122 THEN c - 97 + 26
  ELSE IF c \in 48..57 THEN c - 48 + 52
  ELSE IF c = 43 THEN 62
  ELSE IF c = 47 THEN 63
  ELSE 64

RECURSIVE B64Encode(_)
B64Encode(b) ==
  IF b = <<>> THEN <<>>
  ELSE IF Len(b) = 1 THEN
    <<B64Char(b[1] \div 4), B64Char((b[1] % 4) * 16), B64_PAD, B64_PAD>>
  ELSE IF Len(b) = 2 THEN
    <<B64Char(b[1] \div 4), B64Char((b[1] % 4) * 16 + b[2] \div 16),
      B64Char((b[2] % 16) * 4), B64_PAD>>
  ELSE
    <<B64Char(b[1] \div 4), B64Char((b[1] % 4) * 16 + b[2] \div 16),
      B64Char((b[2] % 16) * 4 + b[3] \div 64), B64Char(b[3] % 64)>>
    \o B64Encode(SubSeq(b, 4, Len(b)))

\* The loop of a2b_base64 over the characters s, in state (quad_pos, leftchar,
\* pads) with the bytes out produced so far.
RECURSIVE A2bLoop(_, _, _, _, _)
A2bLoop(s, quad, left, pads, out) ==
  IF s = <<>> THEN [ok |-> quad = 0, bytes |-> out]
  ELSE IF Head(s) = B64_PAD THEN
    IF quad >= 2 /\ quad + pads + 1 >= 4 THEN [ok |-> TRUE, bytes |-> out]
    ELSE A2bLoop(Tail(s), quad, left, IF quad >= 2 THEN pads + 1 ELSE pads, out)
  ELSE IF B64Val(Head(s)) >= 64 THEN A2bLoop(Tail(s), quad, left, pads, out)
  ELSE LET v == B64Val(Head(s)) IN
    CASE quad = 0 -> A2bLoop(Tail(s), 1, v, 0, out)
      [] quad = 1 -> A2bLoop(Tail(s), 2, v % 16, 0, Append(out, left * 4 + v \div 16))
      [] quad = 2 -> A2bLoop(Tail(s), 3, v % 4, 0, Append(out, left * 16 + v \div 4))
      [] OTHER -> A2bLoop(Tail(s), 0, 0, 0, Append(out, left * 64 + v))

\* base64.b64decode(text): a str with a non-ASCII character raises ValueError.
B64Decode(s) ==
  IF \E i \in 1..Len(s) : s[i] > 127 THEN [ok |-> FALSE, bytes |-> <<>>]
  ELSE A2bLoop(s, 0, 0, 0, <<>>)

IsCont(b) == b \in 128..191

\* Whether bytes.decode("utf-8") accepts b.
RECURSIVE Utf8Valid(_)
Utf8Valid(b) ==
  IF b = <<>> THEN TRUE
  ELSE LET c == b[1] n == Len(b) IN
    IF c < 128 THEN Utf8Valid(Tail(b))
    ELSE IF c \in 194..223 THEN n >= 2 /\ IsCont(b[2]) /\ Utf8Valid(SubSeq(b, 3, n))
    ELSE IF c \in 224..239 THEN
      /\ n >= 3 /\ IsCont(b[2]) /\ IsCont(b[3])
      /\ (c = 224 => b[2] >= 160)
      /\ (c = 237 => b[2] <= 159)
      /\ Utf8Valid(SubSeq(b, 4, n))
    ELSE IF c \in 240..244 THEN
      /\ n >= 4 /\ IsCont(b[2]) /\ IsCont(b[3]) /\ IsCont(b[4])
      /\ (c = 240 => b[2] >= 144)
      /\ (c = 244 => b[2] <= 143)
      /\ Utf8Valid(SubSeq(b, 5, n))
    ELSE FALSE

(***************************************************************************)
(* Script outputs.  The sample stdout texts, and json.loads on them.       *)
(***************************************************************************)
\* {"tags":"x","content":"aGk="}
OUT_OK == <<123, 34, 116, 97, 103, 115, 34, 58, 34, 120, 34, 44, 34, 99, 111, 110, 116, 101, 110, 116, 34, 58, 34, 97, 71, 107, 61, 34, 125>>
\* not json
OUT_NOT_JSON == <<110, 111, 116, 32, 106, 115, 111, 110>>
\* []
OUT_LIST == <<91, 93>>
\* {"content":"aGk"}
OUT_BAD_PAD == <<123, 34, 99, 111, 110, 116, 101, 110, 116, 34, 58, 34, 97, 71, 107, 34, 125>>
\* {"content":"aGk=","tags":5}
OUT_TAGS_NUM == <<123, 34, 99, 111, 110, 116, 101, 110, 116, 34, 58, 34, 97, 71, 107, 61, 34, 44, 34, 116, 97, 103, 115, 34, 58, 53, 125>>
\* {"content":""}
OUT_EMPTY_CONTENT == <<123, 34, 99, 111, 110, 116, 101, 110, 116, 34, 58, 34, 34, 125>>
\* {}
OUT_EMPTY_OBJ == <<123, 125>>
\* {"content":"/w=="}
OUT_BAD_UTF8 == <<123, 34, 99, 111, 110, 116, 101, 110, 116, 34, 58, 34, 47, 119, 61, 61, 34, 125>>
\* {"content":"w6k="}
OUT_ACCENT == <<123, 34, 99, 111, 110, 116, 101, 110, 116, 34, 58, 34, 119, 54, 107, 61, 34, 125>>
\* null
OUT_NULL == <<110, 117, 108, 108>>
\* {"content":null}
OUT_NULL_CONTENT == <<123, 34, 99, 111, 110, 116, 101, 110, 116, 34, 58, 110, 117, 108, 108, 125>>
OUT_NONE == <<>>
\* {"tags":"job-done"}
OUT_DONE_TAG == <<123, 34, 116, 97, 103, 115, 34, 58, 34, 106, 111, 98, 45, 100, 111, 110, 101, 34, 125>>
B64_HI == <<97, 71, 107, 61>>
B64_HI_NOPAD == <<97, 71, 107>>
B64_FF == <<47, 119, 61, 61>>
B64_EACUTE == <<119, 54, 107, 61>>

StdoutSamples ==
  {OUT_OK, OUT_NOT_JSON, OUT_LIST, OUT_BAD_PAD, OUT_TAGS_NUM, OUT_EMPTY_CONTENT,
   OUT_EMPTY_OBJ, OUT_BAD_UTF8, OUT_ACCENT, OUT_NULL, OUT_NULL_CONTENT, OUT_NONE}

\* JSON values: [t |-> type, v |-> value]; a missing key of an object is JAbsent.
JAbsent == [t |-> "absent", v |-> <<>>]
JNull == [t |-> "null", v |-> <<>>]
JStr(x) == [t |-> "str", v |-> x]
JNum(n) == [t |-> "num", v |-> n]
JList(l) == [t |-> "list", v |-> l]
JObj(content, tags) == [t |-> "obj", v |-> [content |-> content, tags |-> tags]]
JError == [t |-> "error", v |-> <<>>]

\* json.loads(stdout) on the sample texts; JError is the exception it raises.
JsonLoads(text) ==
  CASE text = OUT_OK -> JObj(JStr(B64_HI), JStr(TAG_X))
    [] text = OUT_LIST -> JList(<<>>)
    [] text = OUT_BAD_PAD -> JObj(JStr(B64_HI_NOPAD), JAbsent)
    [] text = OUT_TAGS_NUM -> JObj(JStr(B64_HI), JNum(5))
    [] text = OUT_EMPTY_CONTENT -> JObj(JStr(<<>>), JAbsent)
    [] text = OUT_EMPTY_OBJ -> JObj(JAbsent, JAbsent)
    [] text = OUT_BAD_UTF8 -> JObj(JStr(B64_FF), JAbsent)
    [] text = OUT_ACCENT -> JObj(JStr(B64_EACUTE), JAbsent)
    [] text = OUT_NULL -> JNull
    [] text = OUT_NULL_CONTENT -> JObj(JNull, JAbsent)
    [] text = OUT_DONE_TAG -> JObj(JAbsent, JStr(TAG_JOB_DONE))
    [] OTHER -> JError

\* Python truthiness of a JSON value.
Truthy(j) ==
  CASE j.t = "str" -> j.v # <<>>
    [] j.t = "num" -> j.v # 0
    [] j.t = "list" -> j.v # <<>>
    [] j.t = "obj" -> j.v.content.t # "absent" \/ j.v.tags.t # "absent"
    [] OTHER -> FALSE

\* try: output_obj = json.loads(result["stdout"]) except Exception: output_obj = {}
OutputObj(stdout) ==
  LET j == JsonLoads(stdout) IN IF j.t = "error" THEN JObj(JAbsent, JAbsent) ELSE j

\* output_obj.get("content"): None for a missing key.
GetContent(obj) == IF obj.v.content.t = "absent" THEN JNull ELSE obj.v.content

\* base64.b64decode(content_b64).decode("utf-8"): ok is FALSE when either raises
\* (a value that is no str makes b64decode raise TypeError).
DecodeContent(c) ==
  IF c.t # "str" THEN [ok |-> FALSE, text |-> <<>>]
  ELSE LET d == B64Decode(c.v) IN
    IF d.ok /\ Utf8Valid(d.bytes) THEN [ok |-> TRUE, text |-> d.bytes]
    ELSE [ok |-> FALSE, text |-> <<>>]

\* The body posted for a result: the decoded content, and in the except branch
\* "[Invalid base64 result]" if content_b64 else (result["stdout"] or "").
PostContent(obj, stdout) ==
  LET c == IF obj.v.content.t = "absent" THEN JStr(<<>>) ELSE obj.v.content
      d == DecodeContent(c)
  IN IF d.ok THEN d.text
     ELSE IF Truthy(c) THEN INVALID_B64
     ELSE stdout

\* Whether handling the result raises into the worker loop's except clause:
\* output_obj.get on a value that is no dict, "tags" in a value that is not
\* iterable, parse_tags on a value that is neither falsy, a list nor a str.
ResultRaises(result) ==
  LET obj == OutputObj(result.stdout) IN
  \/ obj.t # "obj"
  \/ /\ obj.v.tags.t # "absent"
     /\ Truthy(obj.v.tags)
     /\ obj.v.tags.t \notin {"str", "list"}

\* successful = (result["retcode"] == 0) and output_obj.get("content")
Successful(result) ==
  LET obj == OutputObj(result.stdout) IN
  result.retcode = 0 /\ obj.t = "obj" /\ Truthy(GetContent(obj))

\* The tag list of the result digest of a queue item.
ResultTags(result, done_tags, fail_tags, digest_id, job_name) ==
  LET obj == OutputObj(result.stdout)
      base == IF Successful(result) THEN done_tags ELSE fail_tags
      extra == IF obj.v.tags.t = "str" THEN parse_tags(obj.v.tags.v)
               ELSE IF obj.v.tags.t = "list" THEN obj.v.tags.v
               ELSE <<>>
  IN Append(Append(base, PROCESSED_PREFIX \o digest_id) \o extra, job_name)

(***************************************************************************)
(* The fleet: two agents (hosts) running the same queue job against one    *)
(* pod.  A host runs the worker threads 0 .. threads-1 of its job          *)
(* configuration; at most two on host A and one on host B.                 *)
(***************************************************************************)
Agents == {"A", "B"}
Workers == {<<"A", 0>>, <<"A", 1>>, <<"B", 0>>}
DEVICE(a) == IF a = "A" THEN <<100, 101, 118, 65>> ELSE <<100, 101, 118, 66>>
QueueIds == {ID41, ID42}

\* The job configurations the model draws from: timeout (seconds), lookback
\* (duration text), and logic_digest_id (empty when the key is missing).
CONF_DAY == [timeout |-> 900, lookback |-> LOOKBACK_1D, logic_digest_id |-> LOGIC_ID]
CONF_SHORT == [timeout |-> 45, lookback |-> LOOKBACK_2M, logic_digest_id |-> LOGIC_ID]
CONF_ZERO == [timeout |-> 900, lookback |-> LOOKBACK_0S, logic_digest_id |-> LOGIC_ID]
CONF_2D == [timeout |-> 900, lookback |-> LOOKBACK_2D, logic_digest_id |-> LOGIC_ID]
CONF_DEFAULTS == [timeout |-> 900, lookback |-> LOOKBACK_2M, logic_digest_id |-> LOGIC_ID]
CONF_NO_LOGIC == [timeout |-> 900, lookback |-> LOOKBACK_2M, logic_digest_id |-> <<>>]


\* What a script run may return: (retcode, stdout).
Result(retcode, stdout) == [retcode |-> retcode, stdout |-> stdout]
FleetResults == {Result(0, OUT_OK), Result(1, OUT_NOT_JSON), Result(0, OUT_LIST)}
AllResults == {Result(rc, out) : rc \in {0, 1, -1}, out \in StdoutSamples}
NoResult == Result(0, <<>>)

VARIABLES
  now,        \* the clock (seconds)
  ticks,      \* clock steps taken
  restarts,   \* process restarts taken
  tsAware,    \* whether the pod's timestamps carry a UTC offset ("...Z"): like the
              \* missing and the unparseable ones, they cannot be compared with the clock
  conf,       \* the queue job's configuration
  threads,    \* per host, the number of worker threads of the job
  scripts,    \* the results the job's script can return
  newestFirst, \* whether the pod answers a tag query with the newest digest first
  pod,        \* the digests of the pod the fetcher and the publisher are bound to,
              \* in the order of their creation
  otherPod,   \* the digests of the pod of the agent's other endpoint
  lockfiles,  \* per host, the paths of the lockfiles in its lock directory
  pc,         \* per worker, its position in worker_loop
  work,       \* per worker, the ids of the candidates of its pass
  idx,        \* per worker, the index in work of the candidate it is at
  execCount,  \* per host and digest id, the script executions started (up to 2)
  won,        \* <<worker, id>>: the worker's exclusive create for id succeeded
  sawFresh,   \* <<worker, id>>: the worker's fresh re-check returned a digest for id
  staleCand,  \* <<worker, id>>: id entered the worker's list with its remote locks stale
  heldAtRecheck, \* <<worker, id>>: at the worker's lock re-check another host's lock of id was younger than timeout
  result,     \* per worker, what the run in progress returns
  setupPc,    \* per one-shot thread, its position in run_setup_or_onetime
  refreshes,  \* controller refreshes that dispatched the one-shot job
  setupRuns,  \* executions of the one-shot script started (up to 2)
  lateRun,    \* whether a one-shot execution started with the lockfile present
  config,       \* config_monitor: the configuration it fetched last
  running_jobs, \* config_monitor: the name:type keys marked as running
  monitor,      \* config_monitor: where it is (pc, pos) and whether a pod is configured
  polls,        \* config_monitor: the refreshes it has made
  spawned,      \* per name:type key, the worker threads started for it
  skipped,      \* the keys a refresh found in running_jobs and passed over
  last_config_fetch, \* config_monitor: the time of its last successful fetch, if any
  CONFIG_CACHE_MINUTES, \* the endpoint's setting of that name
  exe,          \* run_script: the executor, where it is, what it returns
  tmpFiles,     \* the script files in the temporary directory
  runs,         \* the calls of run_script made
  config_cache, \* PodDigestFetcher: digest id -> (content, timestamp)
  calls,        \* the calls of fetch_digest_by_id made
  queries,      \* the tag queries fetch_digest_by_id has sent to the pod
  lastCall,     \* the last call of fetch_digest_by_id and its outcome
  srv,          \* the pod's answer to each page of a tag query
  listing,      \* fetch_digests_by_tags: the call in progress, page by page
  task,         \* task_worker: where it is, what its run returns, its runs and when the last began
  taskLock,     \* the content of the task worker's lockfile
  envCall,      \* the last script run: its executor, its arguments, the environment of the script
  lockNames     \* two lockfiles in use: whose they are (job name, key) and their paths

\* The variables of the other components.
ctlVars ==
  <<config, running_jobs, monitor, polls, spawned, skipped, last_config_fetch, CONFIG_CACHE_MINUTES>>

exeVars == <<exe, tmpFiles, runs>>

cacheVars == <<config_cache, calls, queries, lastCall>>

pageVars == <<srv, listing>>

taskVars == <<task, taskLock>>

unitVars == <<pageVars, taskVars, envCall, lockNames>>

restVars == <<ctlVars, exeVars, cacheVars, unitVars>>

vars ==
  <<now, ticks, restarts, tsAware, conf, threads, scripts, newestFirst, pod, lockfiles, pc,
    work, idx, execCount, won, sawFresh, staleCand, heldAtRecheck, result, setupPc,
    refreshes, setupRuns, lateRun, restVars, otherPod>>

envVars == <<tsAware, conf, threads, scripts, newestFirst, otherPod>>

setupVars == <<setupPc, refreshes, setupRuns, lateRun>>

Spawned(w) == w[2] < threads[w[1]]

(***************************************************************************)
(* The pod: tag query with the client-side lookback filter, and ingest.    *)
(***************************************************************************)
HasTag(e, tag) == \E i \in 1..Len(e.tags) : e.tags[i] = tag

Reverse(s) == [i \in 1..Len(s) |-> s[Len(s) + 1 - i]]

\* The order in which the pod lists the entries of an answer: pod keeps the
\* digests oldest first.
Listed(s) == IF newestFirst THEN Reverse(s) ELSE s

\* The entries the tag query returns; it fails soft: when the request fails
\* (~ok) the caller gets what was collected so far, which is nothing.
fetch_digests_by_tags(tag, ok) ==
  IF ok THEN Listed(SelectSeq(pod, LAMBDA e : HasTag(e, tag))) ELSE <<>>

\* A filter that lets every entry through.
InLookbackAlways(e, lookback_s) == TRUE

\* timestamp >= cutoff; comparing an offset-aware timestamp with the naive
\* cutoff raises, and the entry is then included.
InLookback(e, lookback_s) == IF tsAware THEN TRUE ELSE e.created >= now - lookback_s

fetch_digests_with_lookback(tag, lookback_s, ok) ==
  SelectSeq(fetch_digests_by_tags(tag, ok), LAMBDA e : InLookback(e, lookback_s))

\* utcnow() - fromisoformat(c_time): raises for an offset-aware c_time, and the
\* lock is then treated as ancient.
lock_digest_age_sec(e) == IF tsAware THEN ANCIENT ELSE now - e.created

\* post_digest's payload: the content as a base64 file, the tags, the device.
PostPayload(content, tags_csv, device) ==
  [file |-> B64Encode(content), tags |-> tags_csv, device |-> device]

\* The digest the pod makes of an accepted payload.
Ingest(payload) ==
  [id |-> <<>>, content |-> B64Decode(payload.file).bytes,
   tags |-> parse_tags(payload.tags), created |-> now, device |-> payload.device]

\* A fixed order of texts: by length, then by the first differing character.
TextLeq(s, t) ==
  \/ Len(s) < Len(t)
  \/ /\ Len(s) = Len(t)
     /\ \/ s = t
        \/ \E i \in 1..Len(s) : SubSeq(s, 1, i - 1) = SubSeq(t, 1, i - 1) /\ s[i] < t[i]

DigestKey(e) == e.device \o <<0>> \o e.content \o <<0>> \o Join(e.tags, COMMA)

\* The pod lists its digests by creation time; those of one instant are kept
\* in a fixed order.
Before(e, f) == e.created < f.created \/ (e.created = f.created /\ TextLeq(DigestKey(e), DigestKey(f)))

Store(p, e) ==
  LET k == Cardinality({i \in 1..Len(p) : Before(p[i], e)})
  IN SubSeq(p, 1, k) \o <<e>> \o SubSeq(p, k + 1, Len(p))

\* post_digest: the pod after the POST, which is accepted (ok) or fails.
post_digest(content, tags_csv, device, ok) ==
  IF ok THEN Store(pod, Ingest(PostPayload(content, tags_csv, device))) ELSE pod

(***************************************************************************)
(* The local lock store.                                                   *)
(***************************************************************************)
\* A create without O_EXCL: it succeeds on a file that exists.
ExclusiveCreateAlways(files, path) == [ok |-> TRUE, files |-> files \cup {path}]

\* os.open(path, O_CREAT | O_EXCL | O_WRONLY): creates the file iff it is absent.
ExclusiveCreate(files, path) == [ok |-> path \notin files, files |-> files \cup {path}]

\* A lock directory that does not outlive the process.
LockfilesWiped(files) == {}

\* The lock directory a restarted process finds.
LockfilesAfterRestart(files) == files

(***************************************************************************)
(* The queue worker (worker_loop).                                         *)
(***************************************************************************)
done_tags == parse_tags(DONE_TAGS_CSV)
fail_tags == parse_tags(FAIL_TAGS_CSV)
DoneFetchTag == IF done_tags # <<>> THEN done_tags[1] ELSE <<>>

\* locked_map[id]: the last lock digest of the list whose stripped content is id.
LockIndexes(locks, id) == {i \in 1..Len(locks) : Strip(locks[i].content) = id}

IsLocked(locks, id) == id # <<>> /\ LockIndexes(locks, id) # {}

LockedEntry(locks, id) ==
  locks[CHOOSE i \in LockIndexes(locks, id) : \A j \in LockIndexes(locks, id) : j <= i]

\* The processed-<id> tags of a digest, as ids.
ProcessedIds(e) ==
  {DropFirst(e.tags[j], Len(PROCESSED_PREFIX)) :
     j \in {k \in 1..Len(e.tags) : StartsWith(e.tags[k], PROCESSED_PREFIX)}}

\* done_ids: the id of every processed-<id> tag of the done digests.
DoneIds(dones) == UNION {ProcessedIds(dones[i]) : i \in 1..Len(dones)}

\* A filtering pass that does not look at the done digests.
IsCandidateDoneIgnored(a, id, locks, dones) ==
  /\ ~(IsLocked(locks, id) /\ lock_digest_age_sec(LockedEntry(locks, id)) < conf.timeout)
  /\ queue_lockfile_name(JOB_NAME, id) \notin lockfiles[a]

\* Whether the filtering pass keeps candidate id for host a.
IsCandidate(a, id, locks, dones) ==
  /\ id \notin DoneIds(dones)
  /\ ~(IsLocked(locks, id) /\ lock_digest_age_sec(LockedEntry(locks, id)) < conf.timeout)
  /\ queue_lockfile_name(JOB_NAME, id) \notin lockfiles[a]

\* The work list of a pass of a worker of host a, given which of its three
\* fetches went through.
WorkList(a, queueOk, lockOk, doneOk) ==
  LET digests == fetch_digests_with_lookback(QUEUE_TAG, lookback_to_seconds(conf.lookback),
                                             queueOk)
      locks == fetch_digests_with_lookback(LOCK_TAG, LOCK_DONE_LOOKBACK, lockOk)
      dones == fetch_digests_with_lookback(DoneFetchTag, LOCK_DONE_LOOKBACK, doneOk)
      ids == [i \in 1..Len(digests) |-> digests[i].id]
  IN SelectSeq(ids, LAMBDA id : IsCandidate(a, id, locks, dones))

Cur(w) == work[w][idx[w]]

PodSet == {pod[i] : i \in 1..Len(pod)}

IsLockOf(e, id) == HasTag(e, LOCK_TAG) /\ Strip(e.content) = id

\* The pod has lock digests of id, each at least timeout seconds old.
RemoteLockStale(id) ==
  /\ \E e \in PodSet : IsLockOf(e, id)
  /\ \A e \in PodSet : IsLockOf(e, id) => now - e.created >= conf.timeout

\* "continue" in the for loop over work: on to the next candidate, or back to
\* the top of the while loop when the list is exhausted.
Advance(w) ==
  IF idx[w] < Len(work[w])
  THEN /\ pc' = [pc EXCEPT ![w] = "claim"]
       /\ idx' = [idx EXCEPT ![w] = idx[w] + 1]
       /\ work' = work
  ELSE /\ pc' = [pc EXCEPT ![w] = "fetch"]
       /\ idx' = [idx EXCEPT ![w] = 0]
       /\ work' = [work EXCEPT ![w] = <<>>]

\* Lines 369-448: fetch the queue, lock and done digests and build the work
\* list; with nothing to do the worker sleeps and fetches again.
FetchAndFilterFetched(w, queueOk, lockOk, doneOk) ==
  /\ Spawned(w)
  /\ pc[w] = "fetch"
  /\ LET list == WorkList(w[1], queueOk, lockOk, doneOk) IN
       /\ list # <<>>
       /\ work' = [work EXCEPT ![w] = list]
       /\ staleCand' = staleCand \cup {<<w, id>> : id \in {d \in Range(list) : RemoteLockStale(d)}}
  /\ idx' = [idx EXCEPT ![w] = 1]
  /\ pc' = [pc EXCEPT ![w] = "claim"]
  /\ UNCHANGED <<now, ticks, restarts, envVars, pod, lockfiles, execCount, won,
                 sawFresh, heldAtRecheck, result, setupVars, restVars>>

\* A worker that, its claim made, posts its lock without the fresh re-check.
ClaimLocalHasty(w) ==
  /\ pc[w] = "claim"
  /\ LET c == ExclusiveCreate(lockfiles[w[1]], queue_lockfile_name(JOB_NAME, Cur(w))) IN
       IF c.ok
       THEN /\ lockfiles' = [lockfiles EXCEPT ![w[1]] = c.files]
            /\ pc' = [pc EXCEPT ![w] = "post_lock"]
            /\ won' = won \cup {<<w, Cur(w)>>}
            /\ UNCHANGED <<work, idx>>
       ELSE /\ Advance(w)
            /\ UNCHANGED <<lockfiles, won>>
  /\ UNCHANGED <<now, ticks, restarts, envVars, pod, execCount, sawFresh, staleCand, heldAtRecheck, result,
                 setupVars, restVars>>

\* Lines 451-475: the atomic claim of the candidate's lockfile.
ClaimLocal(w) ==
  /\ pc[w] = "claim"
  /\ LET c == ExclusiveCreate(lockfiles[w[1]], queue_lockfile_name(JOB_NAME, Cur(w))) IN
       IF c.ok
       THEN /\ lockfiles' = [lockfiles EXCEPT ![w[1]] = c.files]
            /\ pc' = [pc EXCEPT ![w] = "recheck_lock"]
            /\ won' = won \cup {<<w, Cur(w)>>}
            /\ UNCHANGED <<work, idx>>
       ELSE /\ Advance(w)
            /\ UNCHANGED <<lockfiles, won>>
  /\ UNCHANGED <<now, ticks, restarts, envVars, pod, execCount, sawFresh, staleCand, heldAtRecheck, result,
                 setupVars, restVars>>

\* fresh_locked_ids: the ids of the lock digests of the last 60 seconds that
\* the fetch returns.
FreshLockedIds(ok) ==
  LET fresh == fetch_digests_with_lookback(LOCK_TAG, FRESH_LOOKBACK, ok)
  IN {Strip(fresh[i].content) : i \in 1..Len(fresh)}

\* What the worker's re-check has returned so far, after one that did (hit)
\* or did not return a fresh digest for the candidate.
Seen(w, hit) == IF hit THEN sawFresh \cup {<<w, Cur(w)>>} ELSE sawFresh

\* The pod holds a lock digest of worker w's candidate that another host
\* published less than timeout seconds ago.
HeldByOther(w) ==
  \E e \in PodSet :
    /\ IsLockOf(e, Cur(w))
    /\ e.device # DEVICE(w[1])
    /\ now - e.created < conf.timeout

\* Lines 477-485: the fresh re-check of the lock digests, its fetch going
\* through (ok) or not.
RecheckLocksFetched(w, ok) ==
  /\ pc[w] = "recheck_lock"
  /\ sawFresh' = Seen(w, Cur(w) \in FreshLockedIds(ok))
  /\ heldAtRecheck' = IF ok /\ HeldByOther(w)
                      THEN heldAtRecheck \cup {<<w, Cur(w)>>}
                      ELSE heldAtRecheck
  /\ IF Cur(w) \in FreshLockedIds(ok)
     THEN Advance(w)
     ELSE /\ pc' = [pc EXCEPT ![w] = "recheck_done"]
          /\ UNCHANGED <<work, idx>>
  /\ UNCHANGED <<now, ticks, restarts, envVars, pod, lockfiles, execCount, won,
                 staleCand, result, setupVars, restVars>>

RecheckLocks(w) == \E ok \in BOOLEAN : RecheckLocksFetched(w, ok)

\* digest_id in fresh_done_ids: whether a done digest of the last 60 seconds
\* that the fetch returns is tagged processed-<id>.
FreshDone(id, ok) ==
  LET fresh == fetch_digests_with_lookback(DoneFetchTag, FRESH_LOOKBACK, ok)
  IN \E i \in 1..Len(fresh) : HasTag(fresh[i], PROCESSED_PREFIX \o id)

\* A worker that goes on to claim whatever its done re-check returns.
RecheckDoneIgnored(w, ok) ==
  /\ pc[w] = "recheck_done"
  /\ sawFresh' = Seen(w, FreshDone(Cur(w), ok))
  /\ pc' = [pc EXCEPT ![w] = "post_lock"]
  /\ UNCHANGED <<now, ticks, restarts, envVars, pod, lockfiles, work, idx, execCount,
                 won, staleCand, heldAtRecheck, result, setupVars, restVars>>

\* Lines 487-512: the fresh re-check of the done digests, its fetch going
\* through (ok) or not.
RecheckDoneFetched(w, ok) ==
  /\ pc[w] = "recheck_done"
  /\ sawFresh' = Seen(w, FreshDone(Cur(w), ok))
  /\ IF FreshDone(Cur(w), ok)
     THEN Advance(w)
     ELSE /\ pc' = [pc EXCEPT ![w] = "post_lock"]
          /\ UNCHANGED <<work, idx>>
  /\ UNCHANGED <<now, ticks, restarts, envVars, pod, lockfiles, execCount, won,
                 staleCand, heldAtRecheck, result, setupVars, restVars>>

RecheckDone(w) == \E ok \in BOOLEAN : RecheckDoneFetched(w, ok)

\* A worker whose lock digest carries the lock tag alone.
PublishLockBare(w, ok) ==
  /\ pc[w] = "post_lock"
  /\ pod' = post_digest(Cur(w), LOCK_TAG, DEVICE(w[1]), ok)
  /\ IF conf.logic_digest_id = <<>>
     THEN Advance(w)
     ELSE /\ pc' = [pc EXCEPT ![w] = "script"]
          /\ UNCHANGED <<work, idx>>
  /\ UNCHANGED <<now, ticks, restarts, envVars, lockfiles, execCount, won, sawFresh, staleCand, heldAtRecheck,
                 result, setupVars, restVars>>

\* A worker that gives the item up when the post of its lock digest fails.
PublishLockAborting(w, ok) ==
  /\ pc[w] = "post_lock"
  /\ pod' = post_digest(Cur(w), Join(<<LOCK_TAG, JOB_NAME, DEVICE(w[1])>>, COMMA),
                        DEVICE(w[1]), ok)
  /\ IF conf.logic_digest_id = <<>> \/ ~ok
     THEN Advance(w)
     ELSE /\ pc' = [pc EXCEPT ![w] = "script"]
          /\ UNCHANGED <<work, idx>>
  /\ UNCHANGED <<now, ticks, restarts, envVars, lockfiles, execCount, won, sawFresh, staleCand, heldAtRecheck,
                 result, setupVars, restVars>>

\* Lines 514-528: publish the remote lock; then a job without logic_digest_id
\* gives the item up.
PublishLockPosted(w, ok) ==
  /\ pc[w] = "post_lock"
  /\ pod' = post_digest(Cur(w), Join(<<LOCK_TAG, JOB_NAME, DEVICE(w[1])>>, COMMA),
                        DEVICE(w[1]), ok)
  /\ IF conf.logic_digest_id = <<>>
     THEN Advance(w)
     ELSE /\ pc' = [pc EXCEPT ![w] = "script"]
          /\ UNCHANGED <<work, idx>>
  /\ UNCHANGED <<now, ticks, restarts, envVars, lockfiles, execCount, won, sawFresh, staleCand, heldAtRecheck,
                 result, setupVars, restVars>>

\* A worker that removes the item's lockfile when the script cannot be
\* fetched.
RunScriptReleasing(w, ok) ==
  /\ pc[w] = "script"
  /\ IF ok
     THEN /\ pc' = [pc EXCEPT ![w] = "running"]
          /\ execCount' = [execCount EXCEPT ![w[1]][Cur(w)] = IF @ < 2 THEN @ + 1 ELSE @]
          /\ \E r \in scripts : result' = [result EXCEPT ![w] = r]
          /\ UNCHANGED <<work, idx, lockfiles>>
     ELSE /\ Advance(w)
          /\ lockfiles' = [lockfiles EXCEPT ![w[1]] = @ \ {queue_lockfile_name(JOB_NAME, Cur(w))}]
          /\ UNCHANGED <<execCount, result>>
  /\ UNCHANGED <<now, ticks, restarts, envVars, pod, won, sawFresh, staleCand, heldAtRecheck, setupVars, restVars>>

\* Lines 530-559: fetch the logic script, which the pod serves (ok) or not;
\* with the script in hand the executor runs it on the item (result is what
\* the run returns).
RunScriptFetched(w, ok) ==
  /\ pc[w] = "script"
  /\ IF ok
     THEN /\ pc' = [pc EXCEPT ![w] = "running"]
          /\ execCount' = [execCount EXCEPT ![w[1]][Cur(w)] = IF @ < 2 THEN @ + 1 ELSE @]
          /\ \E r \in scripts : result' = [result EXCEPT ![w] = r]
          /\ UNCHANGED <<work, idx>>
     ELSE Advance(w) /\ UNCHANGED <<execCount, result>>
  /\ UNCHANGED <<now, ticks, restarts, envVars, pod, lockfiles, won, sawFresh, staleCand, heldAtRecheck, setupVars, restVars>>

\* The body and the tag text of the result digest of worker w's run.
ResultBody(w) == PostContent(OutputObj(result[w].stdout), result[w].stdout)

ResultTagsCsv(w) ==
  Join(ResultTags(result[w], done_tags, fail_tags, Cur(w), JOB_NAME), COMMA)

\* Lines 563-592: the run has returned and its result is interpreted into
\* the tags and the body of the result digest, or the interpretation raises
\* into the except clause (lines 601-605), which ends the pass.
InterpretResult(w) ==
  /\ pc[w] = "running"
  /\ IF ResultRaises(result[w])
     THEN /\ pc' = [pc EXCEPT ![w] = "fetch"]
          /\ idx' = [idx EXCEPT ![w] = 0]
          /\ work' = [work EXCEPT ![w] = <<>>]
          /\ result' = [result EXCEPT ![w] = NoResult]
     ELSE /\ pc' = [pc EXCEPT ![w] = "post_result"]
          /\ UNCHANGED <<work, idx, result>>
  /\ UNCHANGED <<now, ticks, restarts, envVars, pod, lockfiles, execCount, won,
                 sawFresh, staleCand, heldAtRecheck, setupVars, restVars>>

\* A worker that releases the item's lockfile once its result is posted.
PublishResultReleasing(w) ==
  /\ pc[w] = "post_result"
  /\ \E ok \in BOOLEAN :
       pod' = post_digest(ResultBody(w), ResultTagsCsv(w), DEVICE(w[1]), ok)
  /\ Advance(w)
  /\ result' = [result EXCEPT ![w] = NoResult]
  /\ lockfiles' = [lockfiles EXCEPT ![w[1]] = @ \ {queue_lockfile_name(JOB_NAME, Cur(w))}]
  /\ UNCHANGED <<now, ticks, restarts, envVars, execCount, won, sawFresh, staleCand, heldAtRecheck, setupVars, restVars>>

\* Lines 593-599: the result digest is posted, and the pod accepts it (ok) or
\* the post fails; either way the worker goes on to its next candidate.
PublishResultPosted(w, ok) ==
  /\ pc[w] = "post_result"
  /\ pod' = post_digest(ResultBody(w), ResultTagsCsv(w), DEVICE(w[1]), ok)
  /\ Advance(w)
  /\ result' = [result EXCEPT ![w] = NoResult]
  /\ UNCHANGED <<now, ticks, restarts, envVars, lockfiles, execCount, won, sawFresh, staleCand, heldAtRecheck,
                 setupVars, restVars>>

\* A restart that starts from an empty lock directory.
RestartFresh(a) ==
  /\ restarts < MaxRestarts
  /\ threads[a] > 0
  /\ restarts' = restarts + 1
  /\ pc' = [w \in Workers |-> IF w[1] = a THEN "fetch" ELSE pc[w]]
  /\ work' = [w \in Workers |-> IF w[1] = a THEN <<>> ELSE work[w]]
  /\ idx' = [w \in Workers |-> IF w[1] = a THEN 0 ELSE idx[w]]
  /\ result' = [w \in Workers |-> IF w[1] = a THEN NoResult ELSE result[w]]
  /\ lockfiles' = [lockfiles EXCEPT ![a] = {}]
  /\ UNCHANGED <<now, ticks, envVars, pod, execCount, won, sawFresh, staleCand, heldAtRecheck, setupVars, restVars>>

\* The process of host a is restarted: its workers start over, its lock
\* directory is what it was.
Restart(a) ==
  /\ restarts < MaxRestarts
  /\ threads[a] > 0
  /\ restarts' = restarts + 1
  /\ pc' = [w \in Workers |-> IF w[1] = a THEN "fetch" ELSE pc[w]]
  /\ work' = [w \in Workers |-> IF w[1] = a THEN <<>> ELSE work[w]]
  /\ idx' = [w \in Workers |-> IF w[1] = a THEN 0 ELSE idx[w]]
  /\ result' = [w \in Workers |-> IF w[1] = a THEN NoResult ELSE result[w]]
  /\ lockfiles' = [lockfiles EXCEPT ![a] = LockfilesAfterRestart(lockfiles[a])]
  /\ UNCHANGED <<now, ticks, envVars, pod, execCount, won, sawFresh, staleCand, heldAtRecheck, setupVars, restVars>>

\* Time passes: the clock advances by the job's timeout.  With offset-aware
\* timestamps no comparison reads the clock, and it is left alone.
Tick ==
  /\ ticks < MaxTicks
  /\ ~tsAware
  /\ ticks' = ticks + 1
  /\ now' = now + conf.timeout
  /\ UNCHANGED <<restarts, envVars, pod, lockfiles, pc, work, idx, execCount, won,
                 sawFresh, staleCand, heldAtRecheck, result, setupVars, restVars>>

\* The three fetches of the pass, each going through or failing.
FetchAndFilter(w) ==
  \E queueOk, lockOk, doneOk \in BOOLEAN : FetchAndFilterFetched(w, queueOk, lockOk, doneOk)

\* The post of the lock digest, accepted by the pod or failing.
PublishLock(w) == \E ok \in BOOLEAN : PublishLockPosted(w, ok)

\* The fetch of the logic script, served by the pod or failing.
RunScript(w) == \E ok \in BOOLEAN : RunScriptFetched(w, ok)

\* The post of the result digest, accepted by the pod or failing.
PublishResult(w) == \E ok \in BOOLEAN : PublishResultPosted(w, ok)

\* Time passes while a worker sleeps or is busy between two of its steps:
\* just more than the window of the fresh re-check.
Stall ==
  /\ ticks < MaxTicks
  /\ ~tsAware
  /\ ticks' = ticks + 1
  /\ now' = now + FRESH_LOOKBACK + 1
  /\ UNCHANGED <<restarts, envVars, pod, lockfiles, pc, work, idx, execCount, won,
                 sawFresh, staleCand, heldAtRecheck, result, setupVars, restVars>>

\* A day and a second pass while the workers sleep.
DayPasses ==
  /\ ticks < MaxTicks
  /\ ~tsAware
  /\ ticks' = ticks + 1
  /\ now' = now + LOCK_DONE_LOOKBACK + 1
  /\ UNCHANGED <<restarts, envVars, pod, lockfiles, pc, work, idx, execCount, won,
                 sawFresh, staleCand, heldAtRecheck, result, setupVars, restVars>>

\* The script of a worker is at work for just more than two minutes.
RunTakes ==
  /\ ticks < MaxTicks
  /\ ~tsAware
  /\ \E w \in Workers : pc[w] = "running"
  /\ ticks' = ticks + 1
  /\ now' = now + lookback_to_seconds(LOOKBACK_2M) + 1
  /\ UNCHANGED <<restarts, envVars, pod, lockfiles, pc, work, idx, execCount, won,
                 sawFresh, staleCand, heldAtRecheck, result, setupVars, restVars>>

\* last_config_fetch = None, and after a fetch that succeeded at time t.
NoFetch == [done |-> FALSE, at |-> 0]
FetchedAt(t) == [done |-> TRUE, at |-> t]

\* endpoint.get('CONFIG_CACHE_MINUTES', 5)
CACHE_MINUTES_DEFAULT == 5

\* The other components after construction, the endpoint's
\* CONFIG_CACHE_MINUTES being cm: config_monitor has not run.
\* No call of fetch_digests_by_tags is in progress.
NoListing == [pc |-> "idle", max_pages |-> 0, page |-> 0, all_digests |-> <<>>, requests |-> 0]

\* The content of a lockfile: there is none, its text is no JSON object with
\* an ISO timestamp under "created", or it is what create_queue_lockfile
\* wrote at time t.
LockAbsent == [state |-> "absent", created |-> 0]

LockCorrupt == [state |-> "corrupt", created |-> 0]

LockWritten(t) == [state |-> "ok", created |-> t]

\* No task worker has been started.
NoTask == [pc |-> "off", result |-> NoResult, starts |-> 0, last_start |-> 0]

\* os.environ of the agent.
ParentEnv == [n \in {"PATH"} |-> <<47, 98, 105, 110>>]

\* run_script was called without a job_digest.
NoDigest == [given |-> FALSE, id |-> <<>>, tags |-> <<>>]

\* No script has been run.
NoEnvCall ==
  [pc |-> "idle", lang |-> "bash", job_name |-> <<>>, type |-> <<>>, job_digest |-> NoDigest,
   env |-> ParentEnv]

InitComponentsAt(cm) ==
  /\ last_config_fetch = NoFetch
  /\ CONFIG_CACHE_MINUTES = cm
  /\ otherPod = <<>>
  /\ config = <<>>
  /\ running_jobs = {}
  /\ monitor = [pc |-> "wait", pos |-> 0, pod |-> TRUE]
  /\ polls = 0
  /\ spawned = [k \in {} |-> 0]
  /\ skipped = {}
  /\ exe = [lang |-> "bash", pc |-> "idle", path |-> 0, fault |-> "none",
            result |-> [retcode |-> 0, stdout |-> <<>>, stderr |-> ""]]
  /\ tmpFiles = {}
  /\ runs = 0
  /\ config_cache = <<>>
  /\ calls = 0
  /\ queries = 0
  /\ lastCall = [id |-> <<>>]
  /\ srv = <<>>
  /\ listing = NoListing
  /\ task = NoTask
  /\ taskLock = LockAbsent
  /\ envCall = NoEnvCall
  /\ lockNames = <<>>

InitComponents == InitComponentsAt(CACHE_MINUTES_DEFAULT)

\* The other components, and a pod that answers oldest first.
InitRest == InitComponents /\ newestFirst = FALSE

QueueDigest(id) ==
  [id |-> id, content |-> HELLO, tags |-> <<QUEUE_TAG>>, created |-> 0, device |-> <<>>]

\* The workers after construction, with the digests p in the pod.
InitWorkersWith(p, t) ==
  /\ now = t
  /\ ticks = 0
  /\ restarts = 0
  /\ pod = p
  /\ lockfiles = [a \in Agents |-> {}]
  /\ pc = [w \in Workers |-> "fetch"]
  /\ work = [w \in Workers |-> <<>>]
  /\ idx = [w \in Workers |-> 0]
  /\ execCount = [a \in Agents |-> [d \in QueueIds |-> 0]]
  /\ won = {}
  /\ sawFresh = {}
  /\ staleCand = {}
  /\ heldAtRecheck = {}
  /\ result = [w \in Workers |-> NoResult]
  /\ setupPc = <<>>
  /\ refreshes = 0
  /\ setupRuns = 0
  /\ lateRun = FALSE

\* The state after construction, but for the environment (envVars), with the
\* digests of ids waiting in the queue.
InitWorkers(ids, t) == InitWorkersWith([i \in 1..Len(ids) |-> QueueDigest(ids[i])], t)

InitQueueAt(ids, t) == InitWorkers(ids, t) /\ InitRest

InitQueue(ids) == InitQueueAt(ids, 0)

\* A producer publishes the queue digest id, which the pod does not hold yet.
PublishQueueDigest(id) ==
  /\ ~\E e \in PodSet : e.id = id
  /\ pod' = Store(pod, [QueueDigest(id) EXCEPT !.created = now])
  /\ UNCHANGED <<now, ticks, restarts, envVars, lockfiles, pc, work, idx, execCount, won,
                 sawFresh, staleCand, heldAtRecheck, result, setupVars, restVars>>

WorkerStep(w) ==
  \/ FetchAndFilter(w)
  \/ ClaimLocal(w)
  \/ RecheckLocks(w)
  \/ RecheckDone(w)
  \/ PublishLock(w)
  \/ RunScript(w)
  \/ InterpretResult(w)
  \/ PublishResult(w)

(***************************************************************************)
(* Spec: the fleet.  One worker on each of the two hosts, the clock.       *)
(***************************************************************************)
Init ==
  /\ InitQueue(<<ID42>>)
  /\ tsAware \in BOOLEAN
  /\ conf \in {CONF_DAY, CONF_SHORT, CONF_NO_LOGIC}
  /\ threads = [a \in Agents |-> 1]
  /\ scripts = FleetResults

Next ==
  \/ \E w \in Workers : WorkerStep(w)
  \/ Tick

Spec == Init /\ [][Next]_vars

(***************************************************************************)
(* SpecSlow: the fleet, with workers that take their time between steps.   *)
(***************************************************************************)
NextSlow ==
  \/ \E w \in Workers : WorkerStep(w)
  \/ Tick
  \/ Stall

SpecSlow == Init /\ [][NextSlow]_vars

(***************************************************************************)
(* SpecZero: the fleet with lookback "0s"; the queue digests are one       *)
(* second old when the workers start.                                      *)
(***************************************************************************)
InitZero ==
  /\ InitQueueAt(<<ID41, ID42>>, 1)
  /\ tsAware \in BOOLEAN
  /\ conf = CONF_ZERO
  /\ threads = [a \in Agents |-> 1]
  /\ scripts = FleetResults

SpecZero == InitZero /\ [][Next]_vars

(***************************************************************************)
(* SpecHost: one host, two worker threads, restarts.                       *)
(***************************************************************************)
InitHost ==
  /\ InitQueue(<<ID41, ID42>>)
  /\ tsAware \in BOOLEAN
  /\ conf \in {CONF_DAY, CONF_SHORT, CONF_NO_LOGIC}
  /\ threads = [a \in Agents |-> IF a = "A" THEN 2 ELSE 0]
  /\ scripts = FleetResults

NextHost ==
  \/ \E w \in Workers : WorkerStep(w)
  \/ \E a \in Agents : Restart(a)
  \/ Tick

SpecHost == InitHost /\ [][NextHost]_vars

(***************************************************************************)
(* SpecResult: one worker, every sample result.                            *)
(***************************************************************************)
InitResult ==
  /\ InitQueue(<<ID41, ID42>>)
  /\ tsAware = FALSE
  /\ conf = CONF_DAY
  /\ threads = [a \in Agents |-> IF a = "A" THEN 1 ELSE 0]
  /\ scripts = AllResults

NextResult == \E w \in Workers : WorkerStep(w)

SpecResult == InitResult /\ [][NextResult]_vars

(***************************************************************************)
(* SpecSolo: a single agent (one or two worker threads), a pod that        *)
(* answers every request, a script the pod serves.  Each run has one       *)
(* script, whose result is one of the sample results.  A worker thread     *)
(* that can take a step takes it: the threads are daemon threads of a      *)
(* process that stays up, and every sleep of the loop is finite.           *)
(***************************************************************************)
SoloStep(w) ==
  \/ FetchAndFilterFetched(w, TRUE, TRUE, TRUE)
  \/ ClaimLocal(w)
  \/ RecheckLocksFetched(w, TRUE)
  \/ RecheckDoneFetched(w, TRUE)
  \/ PublishLockPosted(w, TRUE)
  \/ RunScriptFetched(w, TRUE)
  \/ InterpretResult(w)
  \/ PublishResultPosted(w, TRUE)

\* What an executor returns: the script's exit code with what it wrote, or
\* retcode -1 with an empty stdout when the run failed.
RunResults == {r \in AllResults : r.retcode = -1 => r.stdout = OUT_NONE}

InitSolo ==
  /\ \/ InitQueue(<<ID42>>)
     \/ InitQueue(<<ID41, ID42>>)
  /\ tsAware \in BOOLEAN
  /\ conf = CONF_DAY
  /\ \E n \in 1..2 : threads = [a \in Agents |-> IF a = "A" THEN n ELSE 0]
  /\ \E r \in RunResults : scripts = {r}

NextSolo ==
  \/ \E w \in Workers : SoloStep(w)
  \/ Tick

\* The position of worker thread w in its loop: every step of the thread
\* changes it and no other step does.
Position(w) == <<pc[w], idx[w]>>

PcNames ==
  {"fetch", "claim", "recheck_lock", "recheck_done", "post_lock", "script", "running",
   "post_result"}

\* Thread w has a step to take: it is inside a pass, or at the top of the
\* loop with a work list to start on (with none it sleeps and fetches again).
CanStep(w) ==
  /\ Spawned(w)
  /\ pc[w] = "fetch" => WorkList(w[1], TRUE, TRUE, TRUE) # <<>>

\* Thread w moves on: under NextSolo these are the steps SoloStep(w).
Moves(w) ==
  /\ CanStep(w)
  /\ \E p \in PcNames, i \in 0..Cardinality(QueueIds) :
       /\ pc' = [pc EXCEPT ![w] = p]
       /\ idx' = [idx EXCEPT ![w] = i]

\* Weak fairness of each thread's steps: a thread that has a step to take
\* takes it.
SpecSolo ==
  InitSolo /\ [][NextSolo]_vars /\ \A w \in Workers : WF_Position(w)(Moves(w))

(***************************************************************************)
(* SpecLocks: one agent whose passes find lock digests of other hosts in   *)
(* the pod, some older than the timeout and some younger; the pod answers  *)
(* oldest first or newest first.                                           *)
(***************************************************************************)
DEVICE_C == <<100, 101, 118, 67>>
\* The time at which the agent starts, and the time at which the younger
\* locks were published.
T_START == 1000
T_LATE == 500

LockDigest(id, device, t) ==
  [id |-> <<>>, content |-> id, tags |-> <<LOCK_TAG, JOB_NAME, device>>, created |-> t,
   device |-> device]

\* A lock of 42 that host C published at 0 and never followed up, the lock
\* of 42 that host B published at T_LATE, a lock of 41 of host B.
LockSamples ==
  {LockDigest(ID42, DEVICE_C, 0), LockDigest(ID42, DEVICE("B"), T_LATE),
   LockDigest(ID41, DEVICE("B"), T_LATE)}

\* The pod after it has stored the digests es one by one.
RECURSIVE StoreAll(_, _)
StoreAll(p, es) ==
  IF es = {} THEN p
  ELSE LET e == CHOOSE x \in es : TRUE IN StoreAll(Store(p, e), es \ {e})

InitLocks ==
  /\ \E locks \in SUBSET LockSamples :
       InitWorkersWith(StoreAll(<<QueueDigest(ID41), QueueDigest(ID42)>>, locks), T_START)
  /\ InitComponents
  /\ newestFirst \in BOOLEAN
  /\ tsAware = FALSE
  /\ conf = CONF_DAY
  /\ \E n \in 1..2 : threads = [a \in Agents |-> IF a = "A" THEN n ELSE 0]
  /\ scripts = FleetResults

NextLocks ==
  \/ \E w \in Workers : SoloStep(w)
  \/ Tick

SpecLocks == InitLocks /\ [][NextLocks]_vars

(***************************************************************************)
(* SpecDays: two hosts, lookback "2d" or "1d", every request to the pod    *)
(* answered, scripts that succeed; days pass.                              *)
(***************************************************************************)
InitDays ==
  /\ InitQueue(<<ID41, ID42>>)
  /\ tsAware = FALSE
  /\ conf \in {CONF_2D, CONF_DAY}
  /\ threads = [a \in Agents |-> 1]
  /\ scripts = {Result(0, OUT_OK)}

NextDays ==
  \/ \E w \in Workers : SoloStep(w)
  \/ Tick
  \/ DayPasses

SpecDays == InitDays /\ [][NextDays]_vars

(***************************************************************************)
(* SpecSkip: two hosts, one worker thread each, restarts; the pod answers  *)
(* every request and holds locks of a third host, one older and one        *)
(* younger than the timeout.                                               *)
(***************************************************************************)
InitSkip ==
  /\ \E locks \in SUBSET {LockDigest(ID41, DEVICE_C, 0), LockDigest(ID42, DEVICE_C, T_LATE)} :
       InitWorkersWith(StoreAll(<<QueueDigest(ID41), QueueDigest(ID42)>>, locks), T_START)
  /\ InitRest
  /\ tsAware = FALSE
  /\ conf = CONF_DAY
  /\ threads = [a \in Agents |-> 1]
  /\ scripts = {Result(0, OUT_OK)}

NextSkip ==
  \/ \E w \in Workers : SoloStep(w)
  \/ \E a \in Agents : Restart(a)
  \/ Tick

SpecSkip == InitSkip /\ [][NextSkip]_vars

(***************************************************************************)
(* SpecBusy: a single agent with one worker thread, no faults: the pod     *)
(* answers every request and the script succeeds.  A producer publishes    *)
(* queue digests while the worker is at work, and a run can take more than *)
(* two minutes.  The worker thread takes every step it can take.           *)
(***************************************************************************)
InitBusy ==
  /\ InitQueue(<<ID41>>)
  /\ tsAware = FALSE
  /\ conf \in {CONF_DEFAULTS, CONF_DAY}
  /\ threads = [a \in Agents |-> IF a = "A" THEN 1 ELSE 0]
  /\ scripts = {Result(0, OUT_OK)}

NextBusy ==
  \/ \E w \in Workers : SoloStep(w)
  \/ \E id \in QueueIds : PublishQueueDigest(id)
  \/ RunTakes

SpecBusy ==
  InitBusy /\ [][NextBusy]_vars /\ \A w \in Workers : WF_Position(w)(Moves(w))

(***************************************************************************)
(* SpecPods: a single agent with one worker thread, no faults, and an      *)
(* endpoint that changes while the worker is at work: the monitor binds    *)
(* the fetcher to the other pod, which holds no queue digest.              *)
(***************************************************************************)
\* Lines 167-175 (called at line 643): the endpoint has changed, and the
\* monitor replaces the fetcher by one bound to the pod of the new endpoint;
\* every later fetch and post of the workers goes to that pod.
init_pod_fetcher ==
  /\ pod' = otherPod
  /\ otherPod' = pod
  /\ UNCHANGED <<now, ticks, pc, work, idx, execCount, won, sawFresh, staleCand,
                 heldAtRecheck, result, restarts, tsAware, conf, threads, scripts,
                 newestFirst, lockfiles, setupVars, restVars>>

InitPods ==
  /\ InitQueue(<<ID41, ID42>>)
  /\ tsAware = FALSE
  /\ conf = CONF_DAY
  /\ threads = [a \in Agents |-> IF a = "A" THEN 1 ELSE 0]
  /\ scripts = {Result(0, OUT_OK)}

NextPods ==
  \/ \E w \in Workers : SoloStep(w)
  \/ init_pod_fetcher

SpecPods == InitPods /\ [][NextPods]_vars

(***************************************************************************)
(* SpecRetry: the fleet with a script that fails: it exits 1 with text     *)
(* that is no JSON, or exits 1 after it has printed {"tags":"job-done"}.   *)
(***************************************************************************)
InitRetry ==
  /\ InitQueue(<<ID42>>)
  /\ tsAware \in BOOLEAN
  /\ conf \in {CONF_DAY, CONF_SHORT}
  /\ threads = [a \in Agents |-> 1]
  /\ scripts = {Result(1, OUT_NOT_JSON), Result(1, OUT_DONE_TAG)}

SpecRetry == InitRetry /\ [][Next]_vars

(***************************************************************************)
(* SpecLockFail: a single agent and a pod that refuses every lock digest   *)
(* and answers every other request; scripts that succeed or fail.  A       *)
(* worker thread that can take a step takes it.                            *)
(***************************************************************************)
LockFailStep(w) ==
  \/ FetchAndFilterFetched(w, TRUE, TRUE, TRUE)
  \/ ClaimLocal(w)
  \/ RecheckLocksFetched(w, TRUE)
  \/ RecheckDoneFetched(w, TRUE)
  \/ PublishLockPosted(w, FALSE)
  \/ RunScriptFetched(w, TRUE)
  \/ InterpretResult(w)
  \/ PublishResultPosted(w, TRUE)

InitLockFail ==
  /\ InitQueue(<<ID41, ID42>>)
  /\ tsAware \in BOOLEAN
  /\ conf \in {CONF_DAY, CONF_SHORT}
  /\ \E n \in 1..2 : threads = [a \in Agents |-> IF a = "A" THEN n ELSE 0]
  /\ scripts = {Result(0, OUT_OK), Result(1, OUT_NOT_JSON)}

NextLockFail ==
  \/ \E w \in Workers : LockFailStep(w)
  \/ Tick

SpecLockFail ==
  InitLockFail /\ [][NextLockFail]_vars /\ \A w \in Workers : WF_Position(w)(Moves(w))


(***************************************************************************)
(* SpecSetup: the controller and the threads of a setup/onetime job.       *)
(***************************************************************************)
queueVars ==
  <<now, ticks, pc, work, idx, execCount, won, sawFresh, staleCand, heldAtRecheck, result>>

SetupLockfile == queue_lockfile_name(JOB_NAME, SETUP_KEY)

\* The threads dispatched so far, in the order of their dispatch.
SetupThreads == 1..Len(setupPc)

\* Lines 659-691: a refresh of the configuration dispatches the job in a new
\* thread; the job is not entered in running_jobs, so every refresh does.
Refresh ==
  /\ refreshes < MaxRefresh
  /\ refreshes' = refreshes + 1
  /\ setupPc' = Append(setupPc, "check")
  /\ UNCHANGED <<queueVars, restVars, restarts, envVars, pod, lockfiles, setupRuns, lateRun>>

\* Lines 735-741: skip when the lockfile exists or no logic_digest_id is set.
SetupCheck(t) ==
  /\ t \in SetupThreads
  /\ setupPc[t] = "check"
  /\ setupPc' = [setupPc EXCEPT ![t] =
                   IF SetupLockfile \in lockfiles["A"] \/ conf.logic_digest_id = <<>>
                   THEN "done" ELSE "fetch"]
  /\ UNCHANGED <<queueVars, restVars, restarts, envVars, pod, lockfiles, refreshes, setupRuns,
                 lateRun>>

\* Lines 742-745: fetch the script, which the pod serves (ok) or not.
SetupFetchScript(t) ==
  /\ t \in SetupThreads
  /\ setupPc[t] = "fetch"
  /\ \E ok \in BOOLEAN : setupPc' = [setupPc EXCEPT ![t] = IF ok THEN "post_lock" ELSE "done"]
  /\ UNCHANGED <<queueVars, restVars, restarts, envVars, pod, lockfiles, refreshes, setupRuns,
                 lateRun>>

\* Lines 752-756: post the lock digest of the job.
SetupPostLock(t) ==
  /\ t \in SetupThreads
  /\ setupPc[t] = "post_lock"
  /\ \E ok \in BOOLEAN :
       pod' = post_digest(SETUP_KEY, Join(<<LOCK_TAG, JOB_NAME, SETUP_KEY, DEVICE("A")>>, COMMA),
                          DEVICE("A"), ok)
  /\ setupPc' = [setupPc EXCEPT ![t] = "create"]
  /\ UNCHANGED <<queueVars, restVars, restarts, envVars, lockfiles, refreshes, setupRuns, lateRun>>

\* create_queue_lockfile: open(path, 'w') writes the file, new or not.
create_queue_lockfile(files, path) == files \cup {path}

\* Line 757: the lockfile is written; the thread goes on to run the script,
\* "run_late" when the file was there before.
SetupCreateLockfile(t) ==
  /\ t \in SetupThreads
  /\ setupPc[t] = "create"
  /\ lockfiles' = [lockfiles EXCEPT !["A"] = create_queue_lockfile(@, SetupLockfile)]
  /\ setupPc' = [setupPc EXCEPT ![t] =
                   IF SetupLockfile \in lockfiles["A"] THEN "run_late" ELSE "run"]
  /\ UNCHANGED <<queueVars, restVars, restarts, envVars, pod, refreshes, setupRuns, lateRun>>

\* Lines 759-769: the executor starts the script.
SetupRun(t) ==
  /\ t \in SetupThreads
  /\ setupPc[t] \in {"run", "run_late"}
  /\ setupRuns' = IF setupRuns < 2 THEN setupRuns + 1 ELSE setupRuns
  /\ lateRun' = (lateRun \/ setupPc[t] = "run_late")
  /\ setupPc' = [setupPc EXCEPT ![t] = "report"]
  /\ UNCHANGED <<queueVars, restVars, restarts, envVars, pod, lockfiles, refreshes>>

\* The tag list of the result digest of a setup/onetime job.
SetupResultTags(r) ==
  LET obj == OutputObj(r.stdout)
      base == IF Successful(r) THEN done_tags ELSE fail_tags
      extra == IF obj.v.tags.t = "str" THEN parse_tags(obj.v.tags.v)
               ELSE IF obj.v.tags.t = "list" THEN obj.v.tags.v
               ELSE <<>>
  IN Append(base \o extra, JOB_NAME)

\* Lines 771-790: the run returns r; its result is posted, unless handling
\* it raises, which ends the thread.
SetupReport(t) ==
  /\ t \in SetupThreads
  /\ setupPc[t] = "report"
  /\ \E r \in scripts :
       IF ResultRaises(r)
       THEN pod' = pod
       ELSE \E ok \in BOOLEAN :
              pod' = post_digest(PostContent(OutputObj(r.stdout), r.stdout),
                                 Join(SetupResultTags(r), COMMA), DEVICE("A"), ok)
  /\ setupPc' = [setupPc EXCEPT ![t] = "done"]
  /\ UNCHANGED <<queueVars, restVars, restarts, envVars, lockfiles, refreshes, setupRuns, lateRun>>

\* The process is restarted: its threads are gone, its lock directory is
\* what it was, and the controller of the new process starts over.
RestartSetup ==
  /\ restarts < MaxRestarts
  /\ restarts' = restarts + 1
  /\ setupPc' = <<>>
  /\ lockfiles' = [lockfiles EXCEPT !["A"] = LockfilesAfterRestart(@)]
  /\ UNCHANGED <<queueVars, restVars, envVars, pod, refreshes, setupRuns, lateRun>>

InitSetup ==
  /\ InitQueue(<<>>)
  /\ tsAware = FALSE
  /\ conf \in {CONF_DAY, CONF_NO_LOGIC}
  /\ threads = [a \in Agents |-> 0]
  /\ scripts = FleetResults

SetupStep(t) ==
  \/ SetupCheck(t)
  \/ SetupFetchScript(t)
  \/ SetupPostLock(t)
  \/ SetupCreateLockfile(t)
  \/ SetupRun(t)
  \/ SetupReport(t)

NextSetup ==
  \/ Refresh
  \/ \E t \in 1..MaxRefresh : SetupStep(t)
  \/ RestartSetup

SpecSetup == InitSetup /\ [][NextSetup]_vars

(***************************************************************************)
(* Properties of the local claim (SpecHost) and of the lockfile (Spec).    *)
(***************************************************************************)
LockfileOf(id) == queue_lockfile_name(JOB_NAME, id)

\* The positions of worker_loop at which the worker holds the claim of Cur(w).
ClaimedPcs == {"recheck_lock", "recheck_done", "post_lock", "script", "running", "post_result"}

\* C1: on one host, over the interleavings of the job's worker threads and
\* over restarts that keep the lock directory, the script is started at most
\* once for each digest, and a worker that has started it is one whose
\* exclusive create of the digest's lockfile succeeded.
C1_AtMostOncePerHost ==
  /\ \A a \in Agents : \A d \in QueueIds : execCount[a][d] <= 1
  /\ \A w \in Workers : pc[w] \in {"running", "post_result"} => <<w, Cur(w)>> \in won

\* Both threads have won a claim and run their digest, and the process has
\* been restarted.
C1_Witness ==
  /\ restarts > 0
  /\ <<<<"A", 0>>, ID41>> \in won
  /\ <<<<"A", 1>>, ID42>> \in won
  /\ execCount["A"][ID41] = 1
  /\ execCount["A"][ID42] = 1

\* C2: a lockfile of a queue item that exists, exists in every later state:
\* no step of a queue worker removes a file from a host's lock directory.
C2_LockfilePermanent ==
  [][\A a \in Agents : lockfiles[a] \subseteq lockfiles'[a]]_vars

\* Both hosts hold the item's lockfile after one worker abandoned it at the
\* fresh re-check and every worker is through with it.
C2_Witness ==
  /\ \A a \in Agents : LockfileOf(ID42) \in lockfiles[a]
  /\ sawFresh # {}
  /\ \A w \in Workers : pc[w] = "fetch"

\* Every lockfile of a host has exactly one winner among the host's workers.
UniqueWinner ==
  \A a \in Agents : \A id \in QueueIds :
    LockfileOf(id) \in lockfiles[a] =>
      Cardinality({w \in Workers : w[1] = a /\ <<w, id>> \in won}) = 1

\* A worker whose claim finds the lockfile in place goes on to its next
\* candidate (or to its next pass), and its step publishes nothing, runs
\* nothing and wins nothing.
LoserMovesOn ==
  \A w \in Workers :
    ( /\ pc[w] = "claim"
      /\ LockfileOf(Cur(w)) \in lockfiles[w[1]]
      /\ <<pc'[w], idx'[w]>> # <<pc[w], idx[w]>>
      /\ restarts' = restarts )
    => /\ pod' = pod
       /\ execCount' = execCount
       /\ won' = won
       /\ IF idx[w] < Len(work[w])
          THEN pc'[w] = "claim" /\ idx'[w] = idx[w] + 1
          ELSE pc'[w] = "fetch"

IsDoneOf(e, id) == HasTag(e, DoneFetchTag) /\ HasTag(e, PROCESSED_PREFIX \o id)

\* The pod holds a done digest of id less than window seconds old.
HoldsDone(id, window) == \E e \in PodSet : IsDoneOf(e, id) /\ now - e.created < window

\* The pod holds a lock (a done) digest of id created within the last 60
\* seconds.
HoldsFreshLock(id) == \E e \in PodSet : IsLockOf(e, id) /\ now - e.created <= FRESH_LOOKBACK

HoldsFreshDone(id) == \E e \in PodSet : IsDoneOf(e, id) /\ now - e.created <= FRESH_LOOKBACK

\* C4: a worker whose done re-check for digest D is answered while the pod
\* holds a done digest of D (tagged done_tags[0] and processed-D) less than
\* 24 hours old does not go on to claim and execute D.
C4_DoneTagPrevents ==
  [][\A w \in Workers :
       (RecheckDoneFetched(w, TRUE) /\ HoldsDone(Cur(w), LOCK_DONE_LOOKBACK))
         => pc'[w] # "post_lock"]_vars

\* The worker is through with every digest its re-check returned a fresh
\* lock or done digest for: the lockfile is in place, the worker is at no
\* later position of the loop for it, and the pod has neither a lock digest
\* nor a result of the worker's host for it.
AbandonedForGood ==
  \A s \in sawFresh :
    /\ LockfileOf(s[2]) \in lockfiles[s[1][1]]
    /\ ~(pc[s[1]] \in (ClaimedPcs \ {"recheck_lock"}) /\ Cur(s[1]) = s[2])
    /\ \A e \in PodSet :
         e.device = DEVICE(s[1][1]) =>
           ~IsLockOf(e, s[2]) /\ ~HasTag(e, PROCESSED_PREFIX \o s[2])

C9_StaleLockTakeover ==
  [][\A w \in Workers :
       ( /\ RecheckLocksFetched(w, TRUE)
         /\ <<w, Cur(w)>> \in staleCand
         /\ RemoteLockStale(Cur(w)) )
         => pc'[w] = "recheck_done"]_vars

(***************************************************************************)
(* Properties of the result handling (SpecResult).                         *)
(***************************************************************************)
\* The digests a step adds to the pod.
NewDigests == {pod'[i] : i \in 1..Len(pod')} \ PodSet

HasAllTags(e, tags) == \A j \in 1..Len(tags) : HasTag(e, tags[j])

\* Worker w leaves position p by the step.
Leaves(w, p) == pc[w] = p /\ pc'[w] # p

\* The worker hands the result of its run to the publisher, and a digest the
\* pod makes of it is the only new one and carries processed-<id> and tags.
ReportedWith(w, tags) ==
  /\ Leaves(w, "running") => pc'[w] = "post_result"
  /\ (Leaves(w, "post_result") /\ pod' # pod) =>
       /\ Cardinality(NewDigests) = 1
       /\ \A e \in NewDigests :
            HasTag(e, PROCESSED_PREFIX \o Cur(w)) /\ HasAllTags(e, tags)

\* C6: every successful execution (exit code 0, non-empty content) is
\* followed by the publication of a digest whose tags include processed-<id>
\* and every done tag (a post that the pod refuses aside).
C6_SuccessPublished ==
  [][\A w \in Workers :
       (pc[w] \in {"running", "post_result"} /\ Successful(result[w]))
         => ReportedWith(w, done_tags)]_vars

\* An executor failure: a timeout or another non-zero exit code, or a stdout
\* that is not a JSON object.
ExecutorFailure(r) == r.retcode # 0 \/ JsonLoads(r.stdout).t # "obj"

\* C7: every execution that ends in an executor failure, whatever its stdout
\* is, is reported by the post of one result digest tagged with the fail
\* tags, processed-<id> and the job name, and the lockfile is retained.
C7_FailureReported ==
  [][\A w \in Workers :
       (pc[w] \in {"running", "post_result"} /\ ExecutorFailure(result[w]))
         => /\ ReportedWith(w, Append(fail_tags, JOB_NAME))
            /\ LockfileOf(Cur(w)) \in lockfiles'[w[1]]]_vars

\* The content field of the output is the base64 encoding of a UTF-8 text.
EncodesText(c) ==
  /\ c.t = "str"
  /\ B64Decode(c.v).ok
  /\ Utf8Valid(B64Decode(c.v).bytes)
  /\ B64Encode(B64Decode(c.v).bytes) = c.v

\* The body the claim gives the result digest of a run: the text the content
\* field encodes, and the raw stdout when stdout is not JSON.
BodyAsSpecified(r, body) ==
  LET j == JsonLoads(r.stdout) IN
  /\ (j.t = "obj" /\ EncodesText(j.v.content)) => body = B64Decode(j.v.content.v).bytes
  /\ j.t = "error" => body = r.stdout

\* C8: the body of the posted result digest is the text that the content
\* field encodes, and it is the raw stdout when stdout is not JSON.
C8_ResultBody ==
  [][\A w \in Workers :
       Leaves(w, "post_result") =>
         \A e \in NewDigests : BodyAsSpecified(result[w], e.content)]_vars

(***************************************************************************)
(* Properties of the setup/onetime job (SpecSetup).                        *)
(***************************************************************************)
\* C10: over the refreshes of the controller and over restarts, at most one
\* execution of the job's script starts on the host, and none starts in a
\* thread that found the lockfile (job_name, "setup") in place.
C10_SetupOnce == setupRuns <= 1 /\ ~lateRun

(***************************************************************************)
(* The order of a worker's steps.                                          *)
(***************************************************************************)
\* The steps of the for loop's body, each with the one that follows it.
SerialOrder ==
  {<<"claim", "recheck_lock">>, <<"recheck_lock", "recheck_done">>,
   <<"recheck_done", "post_lock">>, <<"post_lock", "script">>,
   <<"script", "running">>, <<"running", "post_result">>}

\* Worker w stays where it is, takes the next step of the order, or leaves
\* the digest (for its next candidate or its next pass).
KeepsOrder(w) ==
  \/ pc'[w] = pc[w]
  \/ <<pc[w], pc'[w]>> \in SerialOrder
  \/ pc'[w] \in {"fetch", "claim"}

\* A lockfile appears only by a claim step, a digest is published only by
\* the lock step or the result step of a worker, for its digest, and a run
\* starts only by the step that follows the lock step.
EffectsInOrder ==
  /\ \A a \in Agents : lockfiles'[a] # lockfiles[a] =>
        \E w \in Workers : w[1] = a /\ pc[w] = "claim" /\ pc'[w] = "recheck_lock"
  /\ \A e \in NewDigests :
        \E w \in Workers :
          /\ e.device = DEVICE(w[1])
          /\ \/ pc[w] = "post_lock" /\ IsLockOf(e, Cur(w))
             \/ pc[w] = "post_result" /\ HasTag(e, PROCESSED_PREFIX \o Cur(w))
  /\ execCount' # execCount =>
        \E w \in Workers : pc[w] = "script" /\ pc'[w] = "running"

\* C13: within one worker the steps for a digest occur in the order local
\* claim, fresh re-check of the locks and of the done digests, remote lock
\* publish, script execution, result publish, each starting only when the
\* one before it is complete, and a worker is at a step after the claim only
\* for a digest whose lockfile it created itself.
C13_StrictlySerial ==
  /\ [](\A w \in Workers : pc[w] \in ClaimedPcs => <<w, Cur(w)>> \in won)
  /\ [][(\A w \in Workers : KeepsOrder(w)) /\ EffectsInOrder]_vars

\* Worker 0 of host A went through every step for 42: its lockfile, its lock
\* digest, one run and its result digest are there.
C13_Witness ==
  /\ <<<<"A", 0>>, ID42>> \in won
  /\ execCount["A"][ID42] = 1
  /\ \E e \in PodSet : IsLockOf(e, ID42) /\ e.device = DEVICE("A")
  /\ \E e \in PodSet : HasTag(e, PROCESSED_PREFIX \o ID42) /\ e.device = DEVICE("A")
  /\ pc[<<"A", 0>>] = "fetch"

(***************************************************************************)
(* Mutual exclusion in the fleet.                                          *)
(***************************************************************************)
\* C20: no worker starts executing digest D if, when its fresh re-check for
\* D fetched the lock digests, the pod held a lock digest for D that another
\* agent had published less than timeout seconds before.
C20_FleetExclusion ==
  [][\A w \in Workers :
       (pc[w] = "script" /\ pc'[w] = "running") => <<w, Cur(w)>> \notin heldAtRecheck]_vars

(***************************************************************************)
(* The controller (config_monitor) and the start of the worker pools.      *)
(***************************************************************************)
LANG_BASH == <<98, 97, 115, 104>>
LANG_BASH_UPPER == <<66, 65, 83, 72>>
LANG_PYTHON == <<112, 121, 116, 104, 111, 110>>
LANG_RUBY == <<114, 117, 98, 121>>
TIMING_5M == <<53, 109>>
TIMING_BAD == <<115, 111, 111, 110>>

\* str.lower() on ASCII text.
Lower(s) == [i \in 1..Len(s) |-> IF s[i] \in 65..90 THEN s[i] + 32 ELSE s[i]]

\* The languages config_monitor lets through.
SupportedLanguages ==
  {<<98, 97, 115, 104>>,
   <<115, 104>>,
   <<112, 121, 116, 104, 111, 110>>,
   <<112, 121, 116, 104, 111, 110, 51>>,
   <<112, 121>>,
   <<112, 111, 119, 101, 114, 115, 104, 101, 108, 108>>,
   <<112, 119, 115, 104>>,
   <<112, 115, 49>>}

\* The forms the queue_tag of a job entry takes in the YAML: no such key, a
\* null, a plain text, or a mapping with (or without) a queue_tag of its own.
QT_ABSENT == [form |-> "absent", tag |-> <<>>]
QT_NULL == [form |-> "null", tag |-> <<>>]
QT_TEXT == [form |-> "str", tag |-> QUEUE_TAG]
QT_MAP == [form |-> "dict", tag |-> QUEUE_TAG]
QT_MAP_EMPTY == [form |-> "dict", tag |-> <<>>]

\* One entry of the configuration: name -> {type, job}.
Entry(name, type, language, queue_tag, timing, nthreads, logic) ==
  [name |-> name, type |-> type, language |-> language, queue_tag |-> queue_tag,
   timing |-> timing, threads |-> nthreads, logic_digest_id |-> logic]

E_QUEUE == Entry("q", "queue", LANG_BASH, QT_MAP, <<>>, 2, LOGIC_ID)
E_QUEUE_NO_TAG == Entry("q_notag", "queue", LANG_BASH, QT_ABSENT, <<>>, 1, LOGIC_ID)
E_QUEUE_EMPTY_TAG == Entry("q_empty", "queue", LANG_BASH, QT_MAP_EMPTY, <<>>, 1, LOGIC_ID)
E_QUEUE_TEXT_TAG == Entry("q_text", "queue", LANG_BASH, QT_TEXT, <<>>, 1, LOGIC_ID)
E_QUEUE_NULL_TAG == Entry("q_null", "queue", LANG_BASH, QT_NULL, <<>>, 1, LOGIC_ID)
E_QUEUE_NO_LOGIC == Entry("q_nologic", "queue", LANG_PYTHON, QT_MAP, <<>>, 1, <<>>)
E_TASK == Entry("t", "task", LANG_BASH_UPPER, QT_ABSENT, TIMING_5M, 1, LOGIC_ID)
E_TASK_RUBY == Entry("t_ruby", "task", LANG_RUBY, QT_ABSENT, TIMING_5M, 1, LOGIC_ID)
E_TASK_NO_TIMING == Entry("t_notiming", "task", LANG_BASH, QT_ABSENT, <<>>, 1, LOGIC_ID)
E_TASK_BAD_TIMING == Entry("t_badtiming", "task", LANG_BASH, QT_ABSENT, TIMING_BAD, 1, LOGIC_ID)
E_SETUP == Entry("s", "setup", LANG_BASH, QT_ABSENT, <<>>, 1, LOGIC_ID)
E_NO_TYPE == Entry("broken", "", LANG_BASH, QT_ABSENT, <<>>, 1, LOGIC_ID)
E_CRON == Entry("c", "cron", LANG_BASH, QT_ABSENT, <<>>, 1, LOGIC_ID)

Entries ==
  {E_QUEUE, E_QUEUE_NO_TAG, E_QUEUE_EMPTY_TAG, E_QUEUE_TEXT_TAG, E_QUEUE_NULL_TAG,
   E_QUEUE_NO_LOGIC, E_TASK, E_TASK_RUBY, E_TASK_NO_TIMING, E_TASK_BAD_TIMING, E_SETUP,
   E_NO_TYPE, E_CRON}

\* The configurations the pod may serve: one or two entries (a YAML mapping
\* has each name once, and is read in the order it is written).
Configs ==
  {<<e>> : e \in Entries} \cup {<<e, f>> : <<e, f>> \in {p \in Entries \X Entries : p[1] # p[2]}}

JobKey(e) == <<e.name, e.type>>

Keys == {JobKey(e) : e \in Entries}

\* A start of the queue threads that does not look at queue_tag.
process_queue_job_unchecked(job) == [raises |-> FALSE, started |-> job.threads]

\* process_queue_job up to the start of its threads: it raises (a job
\* without the queue_tag key, line 334; a queue_tag that is a text or a
\* null, line 336), returns at once (no queue_tag in the mapping), or
\* starts the job's threads.
process_queue_job(job) ==
  IF job.queue_tag.form = "absent" THEN [raises |-> TRUE, started |-> 0]
  ELSE IF job.queue_tag.form # "dict" THEN [raises |-> TRUE, started |-> 0]
  ELSE IF job.queue_tag.tag = <<>> THEN [raises |-> FALSE, started |-> 0]
  ELSE [raises |-> FALSE, started |-> job.threads]

\* schedule_task_job: returns at once without a timing, raises on a timing
\* it cannot parse, or starts the job's threads.
schedule_task_job(job) ==
  IF job.timing = <<>> THEN [raises |-> FALSE, started |-> 0]
  ELSE IF lookback_to_seconds(job.timing) < 0 THEN [raises |-> TRUE, started |-> 0]
  ELSE [raises |-> FALSE, started |-> job.threads]

\* A monitor that takes no key for running.
AlreadyRunningNever(k) == FALSE

\* Lines 676-680: the key of the entry is in the running-jobs set.
AlreadyRunning(k) == k \in running_jobs

Started(k) == IF k \in DOMAIN spawned THEN spawned[k] ELSE 0

\* The threads started for key k, n more of them.
Spawn(k, n) ==
  [j \in DOMAIN spawned \cup {k} |-> IF j = k THEN Started(k) + n ELSE spawned[j]]

\* Lines 620-660: an iteration of the monitor that fetches the configuration.
\* The fetch fails (it sleeps and tries again) or brings a configuration.
CtlFetch ==
  /\ monitor.pc = "wait"
  /\ polls < MaxRefresh
  /\ polls' = polls + 1
  /\ \E ok \in BOOLEAN, podOk \in BOOLEAN, c \in Configs :
       IF ok
       THEN /\ config' = c
            /\ monitor' = [pc |-> "jobs", pos |-> 1, pod |-> podOk]
       ELSE /\ config' = config
            /\ monitor' = [monitor EXCEPT !.pod = podOk]
  /\ UNCHANGED <<exeVars, cacheVars, unitVars>>
  /\ UNCHANGED <<queueVars, restarts, envVars, pod, lockfiles, setupVars, running_jobs,
                 spawned, skipped, last_config_fetch, CONFIG_CACHE_MINUTES>>

\* Lines 662-707: the body of the loop over the entries, for the entry at
\* pos.  An exception of process_queue_job or schedule_task_job is caught
\* nowhere: it ends the monitor thread.
CtlDispatch ==
  /\ monitor.pc = "jobs"
  /\ monitor.pos <= Len(config)
  /\ LET e == config[monitor.pos]
         k == JobKey(e)
         next == [monitor EXCEPT !.pos = @ + 1]
         dead == [monitor EXCEPT !.pc = "dead"]
     IN
       IF e.type = "" \/ Lower(e.language) \notin SupportedLanguages
       THEN /\ monitor' = next
            /\ UNCHANGED <<running_jobs, spawned, skipped>>
       ELSE IF AlreadyRunning(k)
       THEN /\ monitor' = next
            /\ skipped' = skipped \cup {k}
            /\ UNCHANGED <<running_jobs, spawned>>
       ELSE IF e.type \in {"setup", "onetime"}
       THEN /\ monitor' = next
            /\ spawned' = Spawn(k, 1)
            /\ UNCHANGED <<running_jobs, skipped>>
       ELSE IF e.type = "task"
       THEN LET r == schedule_task_job(e) IN
              /\ spawned' = Spawn(k, r.started)
              /\ running_jobs' = IF r.raises THEN running_jobs ELSE running_jobs \cup {k}
              /\ monitor' = IF r.raises THEN dead ELSE next
              /\ UNCHANGED skipped
       ELSE IF e.type = "queue" /\ ~monitor.pod
       THEN /\ monitor' = next
            /\ UNCHANGED <<running_jobs, spawned, skipped>>
       ELSE IF e.type = "queue"
       THEN LET r == process_queue_job(e) IN
              /\ spawned' = Spawn(k, r.started)
              /\ running_jobs' = IF r.raises THEN running_jobs ELSE running_jobs \cup {k}
              /\ monitor' = IF r.raises THEN dead ELSE next
              /\ UNCHANGED skipped
       ELSE /\ monitor' = next
            /\ UNCHANGED <<running_jobs, spawned, skipped>>
  /\ UNCHANGED <<exeVars, cacheVars, unitVars>>
  /\ UNCHANGED <<queueVars, restarts, envVars, pod, lockfiles, setupVars, config, polls,
                 last_config_fetch, CONFIG_CACHE_MINUTES>>

\* Lines 709-726: the entries are done; the monitor sleeps until its next
\* iteration.
CtlSleep ==
  /\ monitor.pc = "jobs"
  /\ monitor.pos > Len(config)
  /\ monitor' = [monitor EXCEPT !.pc = "wait", !.pos = 0]
  /\ UNCHANGED <<exeVars, cacheVars, unitVars>>
  /\ UNCHANGED <<queueVars, restarts, envVars, pod, lockfiles, setupVars, config,
                 running_jobs, polls, spawned, skipped, last_config_fetch, CONFIG_CACHE_MINUTES>>

InitCtl ==
  /\ InitQueue(<<>>)
  /\ tsAware = FALSE
  /\ conf = CONF_DAY
  /\ threads = [a \in Agents |-> 0]
  /\ scripts = FleetResults

NextCtl == CtlFetch \/ CtlDispatch \/ CtlSleep

SpecCtl == InitCtl /\ [][NextCtl]_vars

(***************************************************************************)
(* SpecSched: the monitor's loop with its clock: when it fetches the       *)
(* configuration and how long it sleeps.                                   *)
(***************************************************************************)
\* A monitor that lets a cache of -1 minutes expire like any other.
should_fetch_expiring(cm, last, t) ==
  IF ~last.done THEN TRUE
  ELSE IF cm = 0 THEN TRUE
  ELSE (t - last.at) >= cm * 60

\* Lines 625-640: should_fetch, for CONFIG_CACHE_MINUTES cm, the last
\* successful fetch last and the time t (age_minutes >= cache_minutes, in
\* seconds).
should_fetch(cm, last, t) ==
  IF ~last.done THEN TRUE
  ELSE IF cm = 0 THEN TRUE
  ELSE IF cm = -1 THEN FALSE
  ELSE (t - last.at) >= cm * 60

\* Lines 719-726: the sleep at the end of an iteration.
SleepSeconds(cm) == IF cm = 0 THEN 30 ELSE IF cm = -1 THEN 3600 ELSE 60

\* The configurations the pod serves in SpecSched.
SchedConfigs == {<<E_QUEUE>>, <<E_SETUP, E_TASK>>}

\* A monitor that forgets, at each fetch, the running jobs the new
\* configuration does not name.
CtlIteratePruning ==
  /\ monitor.pc = "wait"
  /\ IF should_fetch(CONFIG_CACHE_MINUTES, last_config_fetch, now)
     THEN /\ polls' = polls + 1
          /\ \E ok \in BOOLEAN, podOk \in BOOLEAN, c \in SchedConfigs :
               IF ok
               THEN /\ config' = c
                    /\ last_config_fetch' = FetchedAt(now)
                    /\ monitor' = [pc |-> "jobs", pos |-> 1, pod |-> podOk]
                    /\ running_jobs' = {k \in running_jobs : \E i \in 1..Len(c) : JobKey(c[i]) = k}
               ELSE /\ monitor' = [monitor EXCEPT !.pc = "retry", !.pod = podOk]
                    /\ UNCHANGED <<config, last_config_fetch, running_jobs>>
     ELSE /\ monitor' = [monitor EXCEPT !.pc = "idle"]
          /\ UNCHANGED <<polls, config, last_config_fetch, running_jobs>>
  /\ UNCHANGED <<exeVars, cacheVars, unitVars>>
  /\ UNCHANGED <<queueVars, restarts, envVars, pod, lockfiles, setupVars,
                 spawned, skipped, CONFIG_CACHE_MINUTES>>

\* Lines 620-659: the top of an iteration.  The monitor decides whether to
\* fetch; a fetch brings a configuration, which it goes on to dispatch, or
\* fails (no digest, no YAML), and it sleeps 60 seconds (pc "retry");
\* without a fetch it goes to the sleep at the end of the iteration.
CtlIterate ==
  /\ monitor.pc = "wait"
  /\ IF should_fetch(CONFIG_CACHE_MINUTES, last_config_fetch, now)
     THEN /\ polls' = polls + 1
          /\ \E ok \in BOOLEAN, podOk \in BOOLEAN, c \in SchedConfigs :
               IF ok
               THEN /\ config' = c
                    /\ last_config_fetch' = FetchedAt(now)
                    /\ monitor' = [pc |-> "jobs", pos |-> 1, pod |-> podOk]
               ELSE /\ monitor' = [monitor EXCEPT !.pc = "retry", !.pod = podOk]
                    /\ UNCHANGED <<config, last_config_fetch>>
     ELSE /\ monitor' = [monitor EXCEPT !.pc = "idle"]
          /\ UNCHANGED <<polls, config, last_config_fetch>>
  /\ UNCHANGED <<exeVars, cacheVars, unitVars>>
  /\ UNCHANGED <<queueVars, restarts, envVars, pod, lockfiles, setupVars, running_jobs,
                 spawned, skipped, CONFIG_CACHE_MINUTES>>

\* Lines 654-655 and 719-726: the monitor sleeps, 60 seconds after a fetch
\* that failed, else for the time CONFIG_CACHE_MINUTES gives, and starts its
\* next iteration.
CtlNap ==
  /\ \/ monitor.pc \in {"retry", "idle"}
     \/ monitor.pc = "jobs" /\ monitor.pos > Len(config)
  /\ ticks < MaxNaps
  /\ ticks' = ticks + 1
  /\ now' = now + (IF monitor.pc = "retry" THEN 60 ELSE SleepSeconds(CONFIG_CACHE_MINUTES))
  /\ monitor' = [monitor EXCEPT !.pc = "wait", !.pos = 0]
  /\ UNCHANGED <<exeVars, cacheVars, unitVars>>
  /\ UNCHANGED <<pc, work, idx, execCount, won, sawFresh, staleCand, heldAtRecheck, result,
                 restarts, envVars, pod, lockfiles, setupVars, config, running_jobs, polls,
                 spawned, skipped, last_config_fetch, CONFIG_CACHE_MINUTES>>

InitSched ==
  /\ InitWorkers(<<>>, 0)
  /\ \E cm \in {0, -1, 1, 2} : InitComponentsAt(cm)
  /\ newestFirst = FALSE
  /\ tsAware = FALSE
  /\ conf = CONF_DAY
  /\ threads = [a \in Agents |-> 0]
  /\ scripts = FleetResults

NextSched == CtlIterate \/ CtlDispatch \/ CtlNap

SpecSched == InitSched /\ [][NextSched]_vars

(***************************************************************************)
(* The controller's refreshes.                                             *)
(***************************************************************************)
StartedNext(k) == IF k \in DOMAIN spawned' THEN spawned'[k] ELSE 0

EntryOf(k) == CHOOSE e \in Entries : JobKey(e) = k

\* C11: a refresh is idempotent for task and queue jobs: the worker pool of
\* a name:type key is started once, with the threads of its entry, and no
\* refresh starts a thread for a key that is in the running-jobs set.
C11_RefreshIdempotent ==
  /\ [](\A k \in running_jobs : Started(k) \in {0, EntryOf(k).threads})
  /\ [][\A k \in running_jobs : StartedNext(k) = Started(k)]_vars

\* The second refresh met the queue job and the task job of the first one,
\* both running, and passed them over.
C11_Witness ==
  /\ polls = 2
  /\ monitor.pc = "wait"
  /\ {JobKey(E_QUEUE), JobKey(E_TASK)} \subseteq skipped
  /\ Started(JobKey(E_QUEUE)) = 2
  /\ Started(JobKey(E_TASK)) = 1

\* The entries without fault, and those with one of the configuration
\* errors: no queue_tag, an unsupported language, no logic_digest_id.
WellFormed == {E_QUEUE, E_TASK, E_SETUP}

ListedErrors == {E_QUEUE_NO_TAG, E_QUEUE_EMPTY_TAG, E_TASK_RUBY, E_QUEUE_NO_LOGIC}

\* C12: a configuration error in one job entry (no logic_digest_id, an
\* unsupported language, no queue_tag) affects only that job: the monitor
\* goes on polling, and at the end of the pass every other, valid job of the
\* configuration has been dispatched.
C12_ConfigErrorIsolated ==
  (Range(config) \subseteq WellFormed \cup ListedErrors) =>
    /\ monitor.pc # "dead"
    /\ (monitor.pc = "jobs" /\ monitor.pos > Len(config) /\ monitor.pod) =>
         \A e \in Range(config) \cap WellFormed : Started(JobKey(e)) > 0

\* A queue entry without a queue_tag, or with an empty one.
NoQueueTag(e) == e.type = "queue" /\ e.queue_tag.tag = <<>>

\* C19: a queue job whose configuration has no queue_tag, or an empty one,
\* is not started: no worker thread is started for it, and its dispatch
\* creates no lockfile and publishes no digest.
C19_NoQueueTagNotStarted ==
  /\ [](\A e \in Entries : NoQueueTag(e) => Started(JobKey(e)) = 0)
  /\ [][(monitor.pc = "jobs" /\ monitor.pos <= Len(config) /\ NoQueueTag(config[monitor.pos]))
          => (pod' = pod /\ lockfiles' = lockfiles)]_vars

\* The monitor dispatched a queue job with an empty queue_tag, then one
\* without queue_tag, with a pod configured.
C19_Witness ==
  /\ config = <<E_QUEUE_EMPTY_TAG, E_QUEUE_NO_TAG>>
  /\ monitor.pod
  /\ monitor.pc = "dead"
  /\ JobKey(E_QUEUE_EMPTY_TAG) \in running_jobs

(***************************************************************************)
(* The lookback "0s".                                                      *)
(***************************************************************************)
QueueEntries == {e \in PodSet : HasTag(e, QUEUE_TAG)}

\* C18 (as amended): with lookback "0s" the queue fetch returns only digests
\* whose creation timestamp is missing, cannot be compared with the cutoff,
\* or is not before the agent's clock at the fetch; as long as the pod holds no
\* such digest under queue_tag the worker sleeps and fetches again: it
\* claims nothing, publishes nothing and runs nothing.
C18_ZeroLookback ==
  /\ [](lookback_to_seconds(conf.lookback) = 0)
  /\ [][\A w \in Workers :
         (pc[w] = "fetch" /\ pc'[w] = "claim") =>
           \A id \in Range(work'[w]) :
             \E e \in QueueEntries : e.id = id /\ (tsAware \/ e.created >= now)]_vars
  /\ []((~tsAware /\ \A e \in QueueEntries : e.created < now) =>
          /\ \A w \in Workers : pc[w] = "fetch" /\ work[w] = <<>>
          /\ \A a \in Agents : lockfiles[a] = {} /\ \A d \in QueueIds : execCount[a][d] = 0
          /\ PodSet = QueueEntries)

\* Time has passed over two queue digests with comparable timestamps, and
\* the workers are where they were.
C18_Witness ==
  /\ ~tsAware
  /\ ticks = MaxTicks
  /\ Cardinality(QueueEntries) = 2
  /\ \A w \in Workers : pc[w] = "fetch"
  /\ \A a \in Agents : lockfiles[a] = {}

\* C18 (as stated): with lookback "0s" the queue fetch is empty whatever
\* digests the pod holds under queue_tag, so no worker ever leaves its
\* fetch for a claim.
C18_ZeroLookbackEmpty == [][\A w \in Workers : pc[w] = "fetch" => pc'[w] = "fetch"]_vars

(***************************************************************************)
(* Claim C14 (SpecSolo)                                                    *)
(***************************************************************************)
\* The queue digest id waits in the pod, inside the lookback window, with no
\* lock digest, no done digest and no lockfile of its own.
Unclaimed(id) ==
  /\ \E e \in PodSet :
       /\ e.id = id
       /\ HasTag(e, QUEUE_TAG)
       /\ InLookback(e, lookback_to_seconds(conf.lookback))
  /\ \A e \in PodSet : ~IsLockOf(e, id) /\ ~HasTag(e, PROCESSED_PREFIX \o id)
  /\ queue_lockfile_name(JOB_NAME, id) \notin lockfiles["A"]

LockDigests(id) == {i \in 1..Len(pod) : IsLockOf(pod[i], id)}

ResultDigests(id) ==
  {i \in 1..Len(pod) : HasTag(pod[i], PROCESSED_PREFIX \o id) /\ HasTag(pod[i], JOB_NAME)}

SoloProcessed(id) ==
  /\ Cardinality(LockDigests(id)) = 1
  /\ execCount["A"][id] = 1
  /\ Cardinality(ResultDigests(id)) = 1
  /\ queue_lockfile_name(JOB_NAME, id) \in lockfiles["A"]

\* C14: with a single agent, a working pod and a fetchable script, a queue
\* digest that is inside the lookback window and has no lock digest, no done
\* digest and no local lockfile is eventually processed: one lock digest of
\* it is published, the script is executed once on it, one result digest
\* tagged processed-<id> and job_name is published, and its lockfile exists.
C14_SoloClaimProcessed == \A id \in QueueIds : Unclaimed(id) ~> SoloProcessed(id)

(***************************************************************************)
(* The executors: BashExecutor, PythonExecutor and PowerShellExecutor.     *)
(* run_script creates a temporary file, writes the script to it, runs the  *)
(* interpreter on it and removes the file.                                 *)
(***************************************************************************)
Executors == {"bash", "python", "powershell"}

\* python_executor.py lines 110-122: only the python executor creates and
\* writes the file inside a try; bash_executor.py lines 12-15 and
\* powershell_executor.py lines 45-51 do it before their try starts.
WriteGuarded(lang) == lang = "python"

\* python_executor.py lines 200-205 and powershell_executor.py lines 139-142
\* remove the file inside a try of its own; bash_executor.py line 43 does not.
RemoveGuarded(lang) == lang \in {"python", "powershell"}

\* The result of a failed run.
Failure(text) == [retcode |-> -1, stdout |-> <<>>, stderr |-> text]

\* The faults of the run itself and the stderr of the result they end in.
RunFaults == {"timeout", "no_interpreter", "error"}

RunFailure(lang, fault) ==
  IF lang = "bash" THEN Failure("str(e)")
  ELSE IF fault = "timeout" THEN Failure("Script timed out")
  ELSE IF fault = "no_interpreter" THEN Failure("executable not found")
  ELSE Failure("str(e)")

\* A call of run_script; the file of the call will be the one named path.
ExeCall ==
  /\ exe.pc = "idle"
  /\ runs < MaxRuns
  /\ runs' = runs + 1
  /\ \E lang \in Executors :
       exe' = [lang |-> lang, pc |-> "create", path |-> runs + 1, fault |-> "none",
               result |-> [retcode |-> 0, stdout |-> <<>>, stderr |-> ""]]
  /\ UNCHANGED <<tmpFiles, cacheVars, unitVars, ctlVars, queueVars, restarts, envVars, pod, lockfiles,
                 setupVars>>

\* An exception while the file is created or written: the python executor
\* returns a failure, the other two let it out of run_script.
WriteFailed(fault) ==
  IF WriteGuarded(exe.lang)
  THEN [exe EXCEPT !.pc = "returned", !.fault = fault,
                   !.result = Failure("Failed to write script")]
  ELSE [exe EXCEPT !.pc = "raised", !.fault = fault]

\* tempfile.NamedTemporaryFile(mode='w', delete=False, suffix=...): the file
\* is created (ok), or the call raises and there is no file.
ExeCreate ==
  /\ exe.pc = "create"
  /\ \E ok \in BOOLEAN :
       IF ok
       THEN /\ tmpFiles' = tmpFiles \cup {exe.path}
            /\ exe' = [exe EXCEPT !.pc = "write"]
       ELSE /\ tmpFiles' = tmpFiles
            /\ exe' = WriteFailed("create")
  /\ UNCHANGED <<runs, cacheVars, unitVars, ctlVars, queueVars, restarts, envVars, pod, lockfiles,
                 setupVars>>

\* f.write(script_content); f.flush(): the script is written (ok), or the
\* write raises (a text that cannot be encoded, a full disk); leaving the
\* with block closes the file, which delete=False keeps.
ExeWrite ==
  /\ exe.pc = "write"
  /\ \E ok \in BOOLEAN :
       exe' = IF ok THEN [exe EXCEPT !.pc = "run"] ELSE WriteFailed("write")
  /\ UNCHANGED <<tmpFiles, runs, cacheVars, unitVars, ctlVars, queueVars, restarts, envVars, pod,
                 lockfiles, setupVars>>

\* The try block: subprocess.run returns the script's exit code and output,
\* or raises (TimeoutExpired, FileNotFoundError for the interpreter, any
\* other exception) into the except clauses, which make the result.  The
\* file may be gone when the run ends (gone): the script can remove it.
ExeRun ==
  /\ exe.pc = "run"
  /\ \E fault \in RunFaults \cup {"none"}, r \in FleetResults :
       exe' = [exe EXCEPT !.pc = "cleanup", !.fault = fault,
                          !.result = IF fault = "none"
                                     THEN [retcode |-> r.retcode, stdout |-> r.stdout,
                                           stderr |-> ""]
                                     ELSE RunFailure(exe.lang, fault)]
  /\ \E gone \in BOOLEAN :
       tmpFiles' = IF gone THEN tmpFiles \ {exe.path} ELSE tmpFiles
  /\ UNCHANGED <<runs, cacheVars, unitVars, ctlVars, queueVars, restarts, envVars, pod, lockfiles,
                 setupVars>>

\* The finally clause: os.remove(script_path) removes the file (ok) or raises
\* (the file is gone, or the host refuses); the python and powershell
\* executors swallow the exception, the bash executor lets it out.
ExeCleanup ==
  /\ exe.pc = "cleanup"
  /\ \E ok \in BOOLEAN :
       LET removed == ok /\ exe.path \in tmpFiles IN
         /\ tmpFiles' = IF removed THEN tmpFiles \ {exe.path} ELSE tmpFiles
         /\ exe' = IF removed \/ RemoveGuarded(exe.lang)
                   THEN [exe EXCEPT !.pc = "returned"]
                   ELSE [exe EXCEPT !.pc = "raised"]
  /\ UNCHANGED <<runs, cacheVars, unitVars, ctlVars, queueVars, restarts, envVars, pod, lockfiles,
                 setupVars>>

\* The caller has the result, or the exception, and may call again.
ExeDone ==
  /\ exe.pc \in {"returned", "raised"}
  /\ exe' = [exe EXCEPT !.pc = "idle"]
  /\ UNCHANGED <<tmpFiles, runs, cacheVars, unitVars, ctlVars, queueVars, restarts, envVars, pod,
                 lockfiles, setupVars>>

InitExe ==
  /\ InitQueue(<<>>)
  /\ tsAware = FALSE
  /\ conf = CONF_DAY
  /\ threads = [a \in Agents |-> 0]
  /\ scripts = FleetResults

NextExe == ExeCall \/ ExeCreate \/ ExeWrite \/ ExeRun \/ ExeCleanup \/ ExeDone

SpecExe == InitExe /\ [][NextExe]_vars

(***************************************************************************)
(* Claims C15 and C16 (SpecExe)                                            *)
(***************************************************************************)
\* C15: run_script of no executor raises into its caller, and a run in which
\* something failed (the interpreter is missing, an I/O error, the script
\* file cannot be written, the timeout) returns retcode -1 with the error
\* text in stderr.
C15_NeverRaises ==
  /\ exe.pc # "raised"
  /\ exe.pc = "returned" /\ exe.fault # "none" =>
       exe.result.retcode = -1 /\ exe.result.stderr # ""

\* C16: when run_script returns or fails, on whichever path, the temporary
\* script file of the run does not exist.
C16_TempFileRemoved == exe.pc \in {"returned", "raised"} => exe.path \notin tmpFiles

(***************************************************************************)
(* PodDigestFetcher.fetch_digest_by_id and its cache.                      *)
(***************************************************************************)
\* The seconds of a day: timedelta.seconds is the difference without its days.
DAY_S == 86400
\* A step of the clock between two calls, shorter than five minutes.
CACHE_STEP == 240
\* The values of cache_minutes: no cache, no expiry, five minutes (the default).
CacheMinutes == {0, -1, 5}
\* The ids asked for: the pod holds the first, not the second.
CacheIds == {ID41, ID42}

\* (datetime.now() - timestamp).seconds, line 106.
AgeSeconds(timestamp) == (now - timestamp) % DAY_S

\* Line 102: whether the call looks into the cache.
Consults(use_cache, cache_minutes) == use_cache /\ cache_minutes # 0

\* Lines 102-110: the call returns the cached content.
CacheHit(id, use_cache, cache_minutes) ==
  /\ Consults(use_cache, cache_minutes)
  /\ id \in DOMAIN config_cache
  /\ \/ cache_minutes = -1
     \/ AgeSeconds(config_cache[id].timestamp) < cache_minutes * 60

\* A fetch that stores what it fetched whatever cache_minutes is.
PopulatesAlways(cache_minutes) == TRUE

\* Line 121: whether the call stores what it fetched.
Populates(cache_minutes) == cache_minutes # 0

\* self.config_cache[digest_id] = (content, datetime.now())
CachePut(id, content) ==
  [d \in DOMAIN config_cache \cup {id} |->
     IF d = id THEN [content |-> content, timestamp |-> now] ELSE config_cache[d]]

\* Lines 96-126: a call of fetch_digest_by_id, the digests searched under the
\* queue's tag; the query to the pod is answered (ok) or fails, and then
\* returns nothing.  The call returns the cached content, or the content of
\* the first entry with the id, or raises ValueError.
fetch_digest_by_id ==
  /\ calls < MaxCalls
  /\ calls' = calls + 1
  /\ \E id \in CacheIds, use_cache \in BOOLEAN, cache_minutes \in CacheMinutes, ok \in BOOLEAN :
       LET hit == CacheHit(id, use_cache, cache_minutes)
           digests == fetch_digests_by_tags(QUEUE_TAG, ok)
           found == {i \in 1..Len(digests) : digests[i].id = id}
           first == CHOOSE i \in found : \A j \in found : i <= j
       IN
         /\ queries' = IF hit THEN queries ELSE queries + 1
         /\ config_cache' = IF ~hit /\ found # {} /\ Populates(cache_minutes)
                            THEN CachePut(id, digests[first].content)
                            ELSE config_cache
         /\ lastCall' = [id |-> id, use_cache |-> use_cache, cache_minutes |-> cache_minutes,
                         consulted |-> Consults(use_cache, cache_minutes),
                         outcome |-> IF hit THEN "cached"
                                     ELSE IF found # {} THEN "fetched" ELSE "raised",
                         content |-> IF hit THEN config_cache[id].content
                                     ELSE IF found # {} THEN digests[first].content
                                     ELSE <<>>]
  /\ UNCHANGED <<unitVars, exeVars, ctlVars, queueVars, restarts, envVars, pod, lockfiles,
                 setupVars>>

\* config_monitor, lines 649-650: the cache is cleared before a refresh.
ClearCache ==
  /\ config_cache # <<>>
  /\ config_cache' = <<>>
  /\ UNCHANGED <<calls, queries, lastCall, unitVars, exeVars, ctlVars, queueVars, restarts, envVars, pod,
                 lockfiles, setupVars>>

\* The content of the digest is changed in the pod.
PodEdit ==
  /\ pod' = [i \in 1..Len(pod) |->
              [pod[i] EXCEPT !.content = IF @ = HELLO THEN TAG_X ELSE HELLO]]
  /\ UNCHANGED <<cacheVars, unitVars, exeVars, ctlVars, queueVars, restarts, envVars, lockfiles, setupVars>>

\* Time passes between two calls: four minutes, or a day.
CacheTick ==
  /\ ticks < MaxTicks
  /\ ticks' = ticks + 1
  /\ \E d \in {CACHE_STEP, DAY_S} : now' = now + d
  /\ UNCHANGED <<pc, work, idx, execCount, won, sawFresh, staleCand, heldAtRecheck, result,
                 cacheVars, unitVars, exeVars, ctlVars, restarts, envVars, pod, lockfiles, setupVars>>

InitCache ==
  /\ InitQueue(<<ID41>>)
  /\ tsAware = FALSE
  /\ conf = CONF_DAY
  /\ threads = [a \in Agents |-> 0]
  /\ scripts = FleetResults

NextCache == fetch_digest_by_id \/ ClearCache \/ PodEdit \/ CacheTick

SpecCache == InitCache /\ [][NextCache]_vars

(***************************************************************************)
(* Claim C17 (SpecCache)                                                   *)
(***************************************************************************)
\* C17: a call of fetch_digest_by_id with cache_minutes = 0 queries the pod,
\* does not look into the cache (what it returns is what the pod answered)
\* and leaves the cache as it was.
C17_ZeroAlwaysQueries ==
  [][(calls' # calls /\ lastCall'.cache_minutes = 0) =>
       /\ queries' = queries + 1
       /\ ~lastCall'.consulted
       /\ lastCall'.outcome # "cached"
       /\ config_cache' = config_cache]_vars

\* A call with cache_minutes = 0 and use_cache set has returned the pod's
\* content while the cache holds another content for the id.
C17_Witness ==
  /\ lastCall.id \in DOMAIN config_cache
  /\ lastCall.cache_minutes = 0
  /\ lastCall.use_cache
  /\ lastCall.outcome = "fetched"
  /\ lastCall.content # config_cache[lastCall.id].content

(***************************************************************************)
(* Claim C21 (SpecLocks)                                                   *)
(***************************************************************************)
\* The lock digests of the last 24 hours include one of id that is younger
\* than the timeout.
FreshlyLocked(id) ==
  \E e \in PodSet :
    /\ IsLockOf(e, id)
    /\ now - e.created <= LOCK_DONE_LOOKBACK
    /\ now - e.created < conf.timeout

\* C21: a filtering pass, its fetches answered, skips every candidate of
\* which the 24-hour lock view holds a lock digest younger than the
\* timeout, however many lock digests of the candidate the view holds and
\* in whatever order.
C21_LockedSkipped ==
  [][\A w \in Workers :
       (pc[w] = "fetch" /\ pc'[w] = "claim") =>
         \A i \in 1..Len(work'[w]) : ~FreshlyLocked(work'[w][i])]_vars

(***************************************************************************)
(* Claim C22 (SpecDays)                                                    *)
(***************************************************************************)
\* C22: once the pod holds a done digest of an id (tagged done_tags[0] and
\* processed-<id>), every later filtering pass of any worker, its fetches
\* answered, skips the id, whatever the configured lookback.
C22_DonePermanent ==
  [][\A w \in Workers :
       (pc[w] = "fetch" /\ pc'[w] = "claim") =>
         \A i \in 1..Len(work'[w]) : ~\E e \in PodSet : IsDoneOf(e, work'[w][i])]_vars

(***************************************************************************)
(* C23.  What the filtering stage rejects is left alone for the pass.      *)
(***************************************************************************)
\* The lock and done digests a pass fetches when the pod answers.
LockView == fetch_digests_with_lookback(LOCK_TAG, LOCK_DONE_LOOKBACK, TRUE)
DoneView == fetch_digests_with_lookback(DoneFetchTag, LOCK_DONE_LOOKBACK, TRUE)

\* A pass of host a that starts now rejects candidate id: it is in done_ids,
\* or its remote lock is younger than timeout, or its lockfile exists.
RejectedInFilter(a, id) ==
  \/ id \in DoneIds(DoneView)
  \/ /\ IsLocked(LockView, id)
     /\ lock_digest_age_sec(LockedEntry(LockView, id)) < conf.timeout
  \/ queue_lockfile_name(JOB_NAME, id) \in lockfiles[a]

\* The step adds digest e to the pod.
Posted(e) ==
  \E i \in 1..Len(pod') :
    /\ pod'[i] = e
    /\ pod = SubSeq(pod', 1, i - 1) \o SubSeq(pod', i + 1, Len(pod'))

\* The step has an effect that concerns item id on host a: its lockfile
\* is created, a lock or result digest of it is posted, the script is run
\* on it.
Touched(a, id) ==
  \/ queue_lockfile_name(JOB_NAME, id) \in lockfiles'[a] \ lockfiles[a]
  \/ execCount'[a][id] # execCount[a][id]
  \/ \E i \in 1..Len(pod') :
       /\ Posted(pod'[i])
       /\ IsLockOf(pod'[i], id) \/ HasTag(pod'[i], PROCESSED_PREFIX \o id)

\* C23: the filtering step of a pass keeps every candidate it rejects (in
\* done_ids, remote lock younger than timeout, lockfile present) out of the
\* work list and has no effect itself; every later step of the pass works on
\* the same list and touches no item but the one of the list it is at.  So a
\* rejected candidate gets no lockfile, no lock digest, no result digest and
\* no execution in that pass.
C23_RejectedUntouched ==
  [][\A w \in Workers :
       /\ (pc[w] = "fetch" /\ pc'[w] = "claim") =>
            /\ \A id \in QueueIds :
                 RejectedInFilter(w[1], id) => id \notin Range(work'[w])
            /\ \A id \in QueueIds : ~Touched(w[1], id)
            /\ pod' = pod
       /\ (pc[w] # "fetch" /\ Position(w)' # Position(w)) =>
            /\ work'[w] = work[w] \/ (pc'[w] = "fetch" /\ work'[w] = <<>>)
            /\ Cur(w) \in Range(work[w])
            /\ \A id \in QueueIds \ {Cur(w)} : ~Touched(w[1], id)
            /\ \A i \in 1..Len(pod') :
                 Posted(pod'[i]) =>
                   IsLockOf(pod'[i], Cur(w)) \/ HasTag(pod'[i], PROCESSED_PREFIX \o Cur(w))]_vars

\* Host B is in a pass that rejected 42, which host A has processed (its done
\* digest is in the pod), and has run the script on 41; the pod holds one
\* result digest of 42, host A's.
C23_Witness ==
  /\ pc[<<"B", 0>>] = "post_result"
  /\ work[<<"B", 0>>] = <<ID41>>
  /\ \E e \in PodSet : IsDoneOf(e, ID42) /\ e.device = DEVICE("A")
  /\ Cardinality(ResultDigests(ID42)) = 1
  /\ execCount["B"][ID42] = 0
  /\ queue_lockfile_name(JOB_NAME, ID42) \notin lockfiles["B"]

(***************************************************************************)
(* C24.  A queue job without logic_digest_id.                              *)
(***************************************************************************)
\* C24: while the job's configuration lacks logic_digest_id, no host has a
\* lockfile of a queue item and the pod holds no lock digest.
C24_NoLogicNoClaim ==
  conf.logic_digest_id = <<>> =>
    /\ \A a \in Agents : lockfiles[a] = {}
    /\ \A e \in PodSet : ~HasTag(e, LOCK_TAG)

(***************************************************************************)
(* C25.  The post of the lock digest fails.                                *)
(***************************************************************************)
\* The item has been through a run on host a: the script was executed, a
\* result digest of the item is in the pod, its lockfile is in place.
RanAndPublished(a, id) ==
  /\ execCount[a][id] >= 1
  /\ \E e \in PodSet :
       HasTag(e, PROCESSED_PREFIX \o id) /\ HasTag(e, JOB_NAME) /\ e.device = DEVICE(a)
  /\ queue_lockfile_name(JOB_NAME, id) \in lockfiles[a]

\* C25: the step of a worker whose lock post fails leaves the pod as it is,
\* keeps the worker on the item and takes it to the fetch of the script; from
\* there the script is executed on the item and its result digest published,
\* the lockfile still in place and no lock digest of the item in the pod.
C25_LockFailureGoesOn ==
  /\ [][\A w \in Workers :
          (pc[w] = "post_lock" /\ pc'[w] # "post_lock") =>
            /\ pod' = pod
            /\ pc'[w] = "script"
            /\ work'[w] = work[w] /\ idx'[w] = idx[w]
            /\ lockfiles' = lockfiles]_vars
  /\ \A w \in Workers, id \in QueueIds :
       (pc[w] = "post_lock" /\ Cur(w) = id)
         ~> (RanAndPublished(w[1], id) /\ LockDigests(id) = {})

\* Host A has run the script on 42 and published its result; the lockfile
\* of 42 is in place and the pod holds no lock digest of 42.
C25_Witness ==
  /\ RanAndPublished("A", ID42)
  /\ LockDigests(ID42) = {}
  /\ execCount["A"][ID42] = 1
  /\ \A w \in Workers : pc[w] = "fetch"

(***************************************************************************)
(* C26.  The logic script cannot be fetched.                               *)
(***************************************************************************)
\* Worker w is past the claim of item id.
Holds(w, id) ==
  /\ pc[w] \in {"recheck_lock", "recheck_done", "post_lock", "script", "running", "post_result"}
  /\ Cur(w) = id

\* Host a is through with item id without a run: the lockfile is in place,
\* the script was never executed on it, the host has published no result
\* digest of it and none of its workers holds it.
Abandoned(a, id) ==
  /\ queue_lockfile_name(JOB_NAME, id) \in lockfiles[a]
  /\ execCount[a][id] = 0
  /\ ~\E e \in PodSet : HasTag(e, PROCESSED_PREFIX \o id) /\ e.device = DEVICE(a)
  /\ ~\E w \in Workers : w[1] = a /\ Holds(w, id)

\* The step is worker w's failed fetch of the script.
ScriptFetchFails(w) ==
  /\ pc[w] = "script"
  /\ pc'[w] \notin {"script", "running"}
  /\ restarts' = restarts

\* C26: a worker whose fetch of the script fails keeps the lockfile,
\* executes nothing, publishes nothing and goes to the next candidate of its
\* list (or, the list exhausted, to the next pass); the host is then through
\* with the item, and stays so, restarts included: no later step of the host
\* executes the script on it or publishes a result digest of it.
C26_FetchFailureAbandons ==
  [][/\ \A w \in Workers :
          ScriptFetchFails(w) =>
            /\ lockfiles' = lockfiles
            /\ execCount' = execCount
            /\ pod' = pod
            /\ IF idx[w] < Len(work[w])
               THEN pc'[w] = "claim" /\ idx'[w] = idx[w] + 1 /\ work'[w] = work[w]
               ELSE pc'[w] = "fetch"
            /\ \A id \in QueueIds : id = Cur(w) => Abandoned(w[1], id)'
     /\ \A a \in Agents, id \in QueueIds : Abandoned(a, id) => Abandoned(a, id)']_vars

\* Host A posted its lock of 42 and could not fetch the script; it has not
\* been restarted, and a worker of it has run the script on 41 since.
C26_Witness ==
  /\ Abandoned("A", ID42)
  /\ conf.logic_digest_id # <<>>
  /\ \E e \in PodSet : IsLockOf(e, ID42) /\ e.device = DEVICE("A")
  /\ restarts = 0
  /\ \E w \in Workers : pc[w] = "post_result" /\ Cur(w) = ID41

(***************************************************************************)
(* C27.  Fleet retry after a failed execution.                             *)
(***************************************************************************)
IsResultOf(e, id) == HasTag(e, PROCESSED_PREFIX \o id) /\ HasTag(e, JOB_NAME)

IsFailOf(e, id) == IsResultOf(e, id) /\ \A i \in 1..Len(fail_tags) : HasTag(e, fail_tags[i])

\* Every execution of id so far has failed: the pod holds a fail-tagged
\* result of it, and every result digest of it is one.
FailedOnly(id) ==
  /\ \E e \in PodSet : IsFailOf(e, id)
  /\ \A e \in PodSet : IsResultOf(e, id) => IsFailOf(e, id)

\* Every lock digest of id is at least timeout seconds old for a pass.
LocksStale(id) ==
  \A e \in PodSet : IsLockOf(e, id) => lock_digest_age_sec(e) >= conf.timeout

\* The queue digest of id is inside the lookback window of a pass.
InWindow(id) ==
  LET digests == fetch_digests_with_lookback(QUEUE_TAG, lookback_to_seconds(conf.lookback), TRUE)
  IN \E i \in 1..Len(digests) : digests[i].id = id

\* C27: when every execution of an item has failed, its locks are stale and
\* it is inside the lookback window, a pass of a host without its lockfile
\* takes it as a candidate (every fetch answered).
C27_FleetRetry ==
  \A id \in QueueIds, b \in Agents :
    ( /\ FailedOnly(id)
      /\ LocksStale(id)
      /\ InWindow(id)
      /\ queue_lockfile_name(JOB_NAME, id) \notin lockfiles[b] )
    => id \in Range(WorkList(b, TRUE, TRUE, TRUE))

(***************************************************************************)
(* C28.  The lock digests the workers publish.                             *)
(***************************************************************************)
\* Digest e is the lock digest of worker w for the item it is at: its
\* content is the item's id, a queue digest of the pod; its tags include
\* lock_tag, job_name and the device label; the worker created the item's
\* lockfile, which is in place.
LockOfClaim(e, w) ==
  /\ e.content = Cur(w)
  /\ \E q \in PodSet : HasTag(q, QUEUE_TAG) /\ q.id = Cur(w)
  /\ HasTag(e, LOCK_TAG) /\ HasTag(e, JOB_NAME) /\ HasTag(e, DEVICE(w[1]))
  /\ e.device = DEVICE(w[1])
  /\ <<w, Cur(w)>> \in won
  /\ queue_lockfile_name(JOB_NAME, Cur(w)) \in lockfiles[w[1]]

\* C28: every step that publishes a digest tagged lock_tag is the step of a
\* worker that created, before the step, the lockfile of the queue digest
\* whose id is the digest's content; the digest's tags include lock_tag,
\* job_name and the device label.
C28_LockDigestOfClaim ==
  [][\A i \in 1..Len(pod') :
       (Posted(pod'[i]) /\ HasTag(pod'[i], LOCK_TAG)) =>
         \E w \in Workers :
           /\ pc[w] = "post_lock"
           /\ pc'[w] # "post_lock"
           /\ LockOfClaim(pod'[i], w)]_vars

\* The pod holds a lock digest of 42 that a worker of host A published, the
\* lockfile of 42 on host A being that worker's.
C28_Witness ==
  \E e \in PodSet, w \in Workers :
    /\ w[1] = "A"
    /\ pc[w] = "script"
    /\ LockOfClaim(e, w)
    /\ e.content = ID42

(***************************************************************************)
(* C29.  One lock digest and one result digest per host and item.          *)
(***************************************************************************)
\* The lock digests and the result digests of item id that host a published.
LocksBy(a, id) ==
  {i \in 1..Len(pod) : IsLockOf(pod[i], id) /\ HasTag(pod[i], JOB_NAME) /\ pod[i].device = DEVICE(a)}

ResultsBy(a, id) ==
  {i \in 1..Len(pod) : IsResultOf(pod[i], id) /\ pod[i].device = DEVICE(a)}

\* C29: for every host and every queue digest, the pod holds at most one
\* lock digest and at most one result digest of it that the host published,
\* whatever restarts the host has been through.
C29_OneLockOneResult ==
  \A a \in Agents, id \in QueueIds :
    /\ Cardinality(LocksBy(a, id)) <= 1
    /\ Cardinality(ResultsBy(a, id)) <= 1

\* Host A has published its lock digest and its result digest of 41, has
\* been restarted, and is at the result of a later pass, on 42.
C29_Witness ==
  /\ restarts = 1
  /\ Cardinality(LocksBy("A", ID41)) = 1
  /\ Cardinality(ResultsBy("A", ID41)) = 1
  /\ \E w \in Workers : pc[w] = "post_result" /\ work[w] = <<ID42>>

(***************************************************************************)
(* C30.  A single fault-free agent executes every queue digest.            *)
(***************************************************************************)
\* C30: every queue digest in the pod is eventually executed by the agent.
C30_EveryDigestExecuted ==
  \A id \in QueueIds :
    (\E e \in PodSet : HasTag(e, QUEUE_TAG) /\ e.id = id) ~> (execCount["A"][id] >= 1)

(***************************************************************************)
(* C31.  The controller's fetch schedule.                                  *)
(***************************************************************************)
\* No fetch has succeeded yet, or CONFIG_CACHE_MINUTES is 0, or it is N > 0
\* and at least N minutes have passed since the last successful fetch.
FetchDue ==
  \/ ~last_config_fetch.done
  \/ CONFIG_CACHE_MINUTES = 0
  \/ /\ CONFIG_CACHE_MINUTES > 0
     /\ now - last_config_fetch.at >= 60 * CONFIG_CACHE_MINUTES

\* C31: an iteration of the monitor fetches the configuration iff a fetch is
\* due (with -1 never after the first success); an iteration whose fetch
\* fails changes neither the configuration nor the jobs started, and the
\* monitor's next iteration comes 60 seconds later and fetches again.
C31_FetchSchedule ==
  [][/\ (monitor.pc = "wait" /\ monitor'.pc # "wait") =>
          /\ (polls' = polls + 1) <=> FetchDue
          /\ polls' = polls \/ polls' = polls + 1
          /\ (CONFIG_CACHE_MINUTES = -1 /\ last_config_fetch.done) => polls' = polls
          /\ monitor'.pc = "retry" =>
               /\ polls' = polls + 1
               /\ <<config, spawned, running_jobs, last_config_fetch>>'
                    = <<config, spawned, running_jobs, last_config_fetch>>
     /\ (monitor.pc = "retry" /\ monitor' # monitor) =>
          /\ now' = now + 60
          /\ monitor'.pc = "wait"
          /\ <<config, spawned, running_jobs>>' = <<config, spawned, running_jobs>>
          /\ FetchDue']_vars

\* With CONFIG_CACHE_MINUTES = 2 the monitor fetched at 0, passed the
\* iteration at 60 without a fetch and fetched again at 120.
C31_Witness ==
  /\ CONFIG_CACHE_MINUTES = 2
  /\ polls = 2
  /\ now = 120
  /\ last_config_fetch = FetchedAt(120)

(***************************************************************************)
(* C32.  The running-jobs set only grows.                                  *)
(***************************************************************************)
\* C32: no step of the monitor takes a key out of the running-jobs set or
\* stops a thread it started, whatever configuration it fetches; and no
\* step starts a thread for a key that is in the running-jobs set, so a key
\* that comes back in a later configuration gets no second worker pool.
C32_RunningJobsGrow ==
  [][/\ running_jobs \subseteq running_jobs'
     /\ \A k \in Keys : StartedNext(k) >= Started(k)
     /\ \A k \in running_jobs : StartedNext(k) = Started(k)]_vars

\* The queue job was started from the first configuration, was absent from
\* the second (which started the task job), and the third configuration
\* names it again: the monitor has passed it over, its two threads and the
\* task's thread being all that was started.
C32_Witness ==
  /\ polls = 3
  /\ config = <<E_QUEUE>>
  /\ monitor.pc = "jobs" /\ monitor.pos = 2
  /\ JobKey(E_QUEUE) \in skipped
  /\ {JobKey(E_QUEUE), JobKey(E_TASK)} \subseteq running_jobs
  /\ Started(JobKey(E_QUEUE)) = 2
  /\ Started(JobKey(E_TASK)) = 1

(***************************************************************************)
(* C33.  One pod per pass.                                                 *)
(***************************************************************************)
\* C33: each fresh re-check of a pass reads the pod the pass listed its
\* candidate from: the pod that is read holds the queue digest of the
\* candidate (the two pods share no queue digest).
C33_OnePodPerPass ==
  [][\A w \in Workers :
       (pc[w] \in {"recheck_lock", "recheck_done"} /\ pc'[w] # pc[w] /\ restarts' = restarts)
         => \E e \in PodSet : HasTag(e, QUEUE_TAG) /\ e.id = Cur(w)]_vars

(***************************************************************************)
(* C34.  The lookback filter.                                              *)
(***************************************************************************)
\* The tags and the windows of the worker's fetches.
FetchTags == {QUEUE_TAG, LOCK_TAG, DoneFetchTag}

FetchWindows == {lookback_to_seconds(conf.lookback), FRESH_LOOKBACK, LOCK_DONE_LOOKBACK}

\* C34: fetch_digests_with_lookback returns the entries of
\* fetch_digests_by_tags, in their order, that are not older than the
\* window (every digest of the pod carries a valid ISO-8601 creation
\* timestamp): every entry older than the window is left out.
C34_LookbackExact ==
  \A tag \in FetchTags, s \in FetchWindows :
    fetch_digests_with_lookback(tag, s, TRUE)
      = SelectSeq(fetch_digests_by_tags(tag, TRUE), LAMBDA e : now - e.created <= s)

(***************************************************************************)
(* SpecPages: PodDigestFetcher.fetch_digests_by_tags, page by page.        *)
(***************************************************************************)
\* What the pod reports as 'pages': the key is missing, a count, or a value
\* that is no number (null).
PAGES_ABSENT == [t |-> "absent", v |-> 0]

PAGES_NULL == [t |-> "null", v |-> 0]

PagesCount(n) == [t |-> "num", v |-> n]

ReportedPages == {PAGES_ABSENT, PagesCount(2), PagesCount(SrvPages + 1), PAGES_NULL}

\* The answer to the request of one page: the request fails (the
\* connection, the HTTP status, a body that is no JSON object, feedentries
\* that is no list), or brings a list of entries and what it reports as
\* 'pages'.  The entries of page p are written <<p, 1>>, <<p, 2>>.
PageError == [kind |-> "error", n |-> 0, pages |-> PAGES_ABSENT]

PageAnswer(n, pages) == [kind |-> "answer", n |-> n, pages |-> pages]

PageAnswers == {PageError} \cup {PageAnswer(n, pages) : n \in {0, 1}, pages \in ReportedPages}

\* A page the pod does not hold is empty.
PageOf(page) == IF page \in DOMAIN srv THEN srv[page] ELSE PageAnswer(0, PAGES_ABSENT)

\* data.get('feedentries', []), line 83.
EntriesOf(page) == [i \in 1..PageOf(page).n |-> <<page, i>>]

\* data.get('pages', 1), line 87.
TotalPages(page) == IF PageOf(page).pages.t = "num" THEN PageOf(page).pages.v ELSE 1

\* A loop that goes on whatever max_pages is.
MorePagesAlways(page, max_pages) == TRUE

\* Line 71: while page <= max_pages.
MorePages(page, max_pages) == page <= max_pages

\* The values of max_pages (the default is 10).
MaxPagesValues == 1..SrvPages

\* Lines 60-69: the call begins, with the pod's pages as they are then.
ListCall ==
  /\ listing.pc = "idle"
  /\ srv' \in [1..SrvPages -> PageAnswers]
  /\ \E max_pages \in MaxPagesValues :
       listing' = [pc |-> "loop", max_pages |-> max_pages, page |-> 1, all_digests |-> <<>>,
                   requests |-> 0]
  /\ UNCHANGED <<taskVars, envCall, lockNames, cacheVars, exeVars, ctlVars, queueVars, restarts, envVars,
                 pod, lockfiles, setupVars>>

\* Lines 71-94: one turn of the loop.  The loop ends and the list is
\* returned when page is beyond max_pages, when the request raises (the
\* except prints and breaks), when the comparison with a 'pages' that is no
\* number raises after the entries were added, after the last page the pod
\* reports, and after an empty page.
ListPage ==
  /\ listing.pc = "loop"
  /\ LET page == listing.page
         entries == EntriesOf(page)
         got == listing.all_digests \o entries
     IN
       IF ~MorePages(page, listing.max_pages)
       THEN listing' = [listing EXCEPT !.pc = "returned"]
       ELSE IF PageOf(page).kind = "error"
       THEN listing' = [listing EXCEPT !.pc = "returned", !.requests = @ + 1]
       ELSE IF PageOf(page).pages = PAGES_NULL
       THEN listing' = [listing EXCEPT !.pc = "returned", !.requests = @ + 1,
                                       !.all_digests = got]
       ELSE IF page >= TotalPages(page) \/ entries = <<>>
       THEN listing' = [listing EXCEPT !.pc = "returned", !.requests = @ + 1,
                                       !.all_digests = got]
       ELSE listing' = [listing EXCEPT !.page = @ + 1, !.requests = @ + 1,
                                       !.all_digests = got]
  /\ UNCHANGED <<srv, taskVars, envCall, lockNames, cacheVars, exeVars, ctlVars, queueVars, restarts,
                 envVars, pod, lockfiles, setupVars>>

InitPages ==
  /\ InitQueue(<<>>)
  /\ tsAware = FALSE
  /\ conf = CONF_DAY
  /\ threads = [a \in Agents |-> 0]
  /\ scripts = FleetResults

NextPages == ListCall \/ ListPage

SpecPages == InitPages /\ [][NextPages]_vars

(***************************************************************************)
(* Claim C35 (SpecPages)                                                   *)
(***************************************************************************)
\* The loop stops at page p: the request fails, the page is empty, 'pages'
\* cannot be read, p is the last page the pod reports, or p is max_pages.
StopsAt(p) ==
  \/ PageOf(p).kind = "error"
  \/ PageOf(p).n = 0
  \/ PageOf(p).pages = PAGES_NULL
  \/ p >= TotalPages(p)
  \/ p >= listing.max_pages

FirstStop == CHOOSE p \in 1..listing.max_pages : StopsAt(p) /\ \A q \in 1..(p - 1) : ~StopsAt(q)

\* The entries of the pages 1..p that were answered, in page order.
RECURSIVE PagesUpTo(_)
PagesUpTo(p) ==
  IF p = 0 THEN <<>>
  ELSE PagesUpTo(p - 1) \o (IF PageOf(p).kind = "error" THEN <<>> ELSE EntriesOf(p))

\* C35: fetch_digests_by_tags ends after at most max_pages page requests
\* and returns, whatever the pod answers: its result is the entries, in
\* page order, of the pages answered up to the first page that is the last
\* the pod reports, is empty, fails, or is page max_pages.
C35_PagedFetch ==
  /\ listing.pc \in {"idle", "loop", "returned"}
  /\ listing.requests <= listing.max_pages
  /\ listing.pc = "loop" => listing.requests = listing.page - 1
  /\ listing.pc = "returned" =>
       /\ listing.requests = FirstStop
       /\ listing.all_digests = PagesUpTo(FirstStop)

\* A call returned at the max_pages limit with the entries of three pages.
C35_Witness ==
  /\ listing.pc = "returned"
  /\ listing.max_pages = SrvPages
  /\ listing.requests = SrvPages
  /\ listing.all_digests = [p \in 1..SrvPages |-> <<p, 1>>]
  /\ TotalPages(SrvPages) > SrvPages

(***************************************************************************)
(* Claim C36 (SpecCache)                                                   *)
(***************************************************************************)
\* The time since the entry of id was stored.
AgeOf(id) == now - config_cache[id].timestamp

\* C36: a call of fetch_digest_by_id that uses the cache with cache_minutes
\* other than 0 returns the cached content, without a query to the pod,
\* exactly when the cache holds an entry of the id and cache_minutes is -1
\* or the entry is younger than cache_minutes minutes; an entry of any age
\* of cache_minutes minutes or more, a day and more included, is fetched
\* again.
C36_CacheRule ==
  [][(calls' # calls /\ lastCall'.consulted) =>
       LET id == lastCall'.id
           fresh == /\ id \in DOMAIN config_cache
                    /\ \/ lastCall'.cache_minutes = -1
                       \/ AgeOf(id) < lastCall'.cache_minutes * 60
       IN /\ lastCall'.outcome = "cached" <=> fresh
          /\ queries' = IF fresh THEN queries ELSE queries + 1]_vars

(***************************************************************************)
(* SpecTask: schedule_task_job.task_worker, thread 0 of a task job on      *)
(* host A.                                                                 *)
(***************************************************************************)
\* parse_interval for the integer forms ("120", "2m"); -1 stands for its
\* ValueError.
parse_interval(timing_str) ==
  IF IsDigits(timing_str) THEN ParseInt(timing_str)
  ELSE IF timing_str # <<>> /\ UnitMult(timing_str[Len(timing_str)]) # 0
          /\ IsDigits(SubSeq(timing_str, 1, Len(timing_str) - 1))
       THEN ParseInt(SubSeq(timing_str, 1, Len(timing_str) - 1))
              * UnitMult(timing_str[Len(timing_str)])
  ELSE -1

\* The job's timing is "2m".
interval == parse_interval(LOOKBACK_2M)

\* A check that lets every iteration run.
run_allowed_always(lock) == TRUE

\* Lines 823-834: run_allowed after the lockfile was looked at.  A lockfile
\* that cannot be read or parsed raises into the except clause, which
\* passes.
run_allowed(lock) == ~(lock.state = "ok" /\ now - lock.created < interval)

\* The bounds of random.uniform(1, 4), line 873.
SleepJitter == {1, 4}

\* What the lock directory holds for the worker when it is started: no
\* lockfile, a damaged one, one written a quarter of the interval ago, one
\* written two intervals ago.
LocksFound ==
  {LockAbsent, LockCorrupt, LockWritten(now - (interval \div 4)), LockWritten(now - 2 * interval)}

taskRest ==
  <<pageVars, envCall, lockNames, cacheVars, exeVars, ctlVars, pc, work, idx, execCount, won, sawFresh, staleCand,
    heldAtRecheck, result, envVars, lockfiles, setupVars>>

\* Lines 876-879: the thread is started and its initial sleep is over.
TaskSpawn ==
  /\ task.pc = "off"
  /\ task' = [task EXCEPT !.pc = "check"]
  /\ taskLock' \in LocksFound
  /\ UNCHANGED <<now, ticks, restarts, pod, taskRest>>

\* Lines 819-834: the lockfile is looked at.
TaskCheck ==
  /\ task.pc = "check"
  /\ task' = [task EXCEPT !.pc = IF run_allowed(taskLock) THEN "fetch" ELSE "sleep"]
  /\ UNCHANGED <<taskLock, now, ticks, restarts, pod, taskRest>>

\* Lines 835-856: the logic script is fetched and the executor looked up.
\* Without a script the iteration is given up, the lockfile as it was;
\* with one, the lockfile is written over and the script started.
TaskStart ==
  /\ task.pc = "fetch"
  /\ \E ok \in BOOLEAN :
       IF ok
       THEN /\ taskLock' = LockWritten(now)
            /\ \E r \in scripts :
                 task' = [pc |-> "running", result |-> r, starts |-> task.starts + 1,
                          last_start |-> now]
       ELSE /\ taskLock' = taskLock
            /\ task' = [task EXCEPT !.pc = "nap"]
  /\ UNCHANGED <<now, ticks, restarts, pod, taskRest>>

\* The tag list of the result digest of a task run, lines 863-871.
TaskResultTags(r) ==
  LET obj == OutputObj(r.stdout)
      base == IF Successful(r) THEN done_tags ELSE fail_tags
      extra == IF obj.v.tags.t = "str" THEN parse_tags(obj.v.tags.v)
               ELSE IF obj.v.tags.t = "list" THEN obj.v.tags.v
               ELSE <<>>
  IN Append(base \o extra, JOB_NAME)

\* Lines 856-872: the run returns after some time and its result is
\* posted (the pod accepts it or not); a result that is no JSON object
\* raises out of the loop and ends the thread.
TaskFinish ==
  /\ task.pc = "running"
  /\ \E d \in {0, interval \div 4} : now' = now + d
  /\ IF ResultRaises(task.result)
     THEN /\ task' = [task EXCEPT !.pc = "dead", !.result = NoResult]
          /\ pod' = pod
     ELSE /\ task' = [task EXCEPT !.pc = "sleep", !.result = NoResult]
          /\ \E ok \in BOOLEAN :
               pod' = post_digest(PostContent(OutputObj(task.result.stdout), task.result.stdout),
                                  Join(TaskResultTags(task.result), COMMA), DEVICE("A"), ok)
  /\ UNCHANGED <<taskLock, ticks, restarts, taskRest>>

\* Line 873: time.sleep(interval + random.uniform(1, 4)); lines 838 and 847:
\* time.sleep(5).
TaskSleep ==
  /\ task.pc \in {"sleep", "nap"}
  /\ ticks < MaxNaps
  /\ ticks' = ticks + 1
  /\ IF task.pc = "nap" THEN now' = now + 5
     ELSE \E j \in SleepJitter : now' = now + interval + j
  /\ task' = [task EXCEPT !.pc = "check"]
  /\ UNCHANGED <<taskLock, restarts, pod, taskRest>>

\* The process is restarted: the thread starts over, the lockfile is what it
\* was.
TaskRestart ==
  /\ restarts < MaxRestarts
  /\ task.pc \notin {"off", "check"}
  /\ restarts' = restarts + 1
  /\ task' = [task EXCEPT !.pc = "check", !.result = NoResult]
  /\ UNCHANGED <<taskLock, now, ticks, pod, taskRest>>

InitTask ==
  /\ InitQueueAt(<<>>, T_START)
  /\ tsAware = FALSE
  /\ conf = CONF_DAY
  /\ threads = [a \in Agents |-> 0]
  /\ scripts = {Result(0, OUT_OK), Result(0, OUT_LIST)}

NextTask == TaskSpawn \/ TaskCheck \/ TaskStart \/ TaskFinish \/ TaskSleep \/ TaskRestart

SpecTask == InitTask /\ [][NextTask]_vars

(***************************************************************************)
(* Claim C37 (SpecTask)                                                    *)
(***************************************************************************)
\* The lockfile exists, can be read and is younger than the interval.
YoungLock == taskLock.state = "ok" /\ now - taskLock.created < interval

\* An iteration is skipped exactly when the lockfile is young.
SkipsWhenYoung ==
  [][(task.pc = "check" /\ task'.pc # "check") => (task'.pc = "sleep" <=> YoungLock)]_vars

\* Two consecutive starts of the script are at least the interval apart.
PacedStarts ==
  [][(task'.pc = "running" /\ task.pc # "running" /\ task.starts > 0) =>
       now' - task.last_start >= interval]_vars

\* C37 as stated: the task worker skips an iteration when its lockfile
\* exists, is readable and is younger than the interval; otherwise (the
\* lockfile is absent, corrupt or old) it writes the lockfile over and runs
\* the script; two consecutive executions by the worker never start less
\* than the interval apart.
C37_TaskPacing ==
  /\ SkipsWhenYoung
  /\ [][(task.pc = "fetch" /\ task'.pc # "fetch" /\ restarts' = restarts) =>
          (task'.pc = "running" /\ taskLock' = LockWritten(now))]_vars
  /\ PacedStarts

\* C37 as the code has it: the worker skips an iteration when its lockfile
\* is young; otherwise it fetches the script, and only with the script (and
\* an executor) at hand writes the lockfile over and runs it, while without
\* one it leaves the lockfile as it was and tries again five seconds later;
\* two consecutive executions never start less than the interval apart.
C37_TaskPacingFetched ==
  /\ SkipsWhenYoung
  /\ [][(task.pc = "fetch" /\ task'.pc # "fetch" /\ restarts' = restarts) =>
          \/ task'.pc = "running" /\ taskLock' = LockWritten(now)
          \/ task'.pc = "nap" /\ taskLock' = taskLock]_vars
  /\ [][(task.pc = "nap" /\ task'.pc = "check" /\ restarts' = restarts) => now' = now + 5]_vars
  /\ PacedStarts

\* The worker has started its second run, after a restart.
C37_Witness ==
  /\ task.pc = "running"
  /\ task.starts = 2
  /\ restarts > 0
  /\ taskLock = LockWritten(now)
  /\ task.last_start = now

(***************************************************************************)
(* SpecEnv: the environment in which the executors run the script.         *)
(***************************************************************************)
\* A tag of a digest as the pod sends it: a string, or a record with the
\* tag's name under 'name'.
TagStr(s) == [dict |-> FALSE, name |-> s]

TagRec(s) == [dict |-> TRUE, name |-> s]

EnvTags == {TagStr(QUEUE_TAG), TagStr(TAG_X), TagRec(QUEUE_TAG), TagRec(TAG_X)}

EnvTagLists == {<<>>} \cup {<<a>> : a \in EnvTags} \cup {<<a, b>> : a, b \in EnvTags}

EnvDigests ==
  {NoDigest} \cup {[given |-> TRUE, id |-> id, tags |-> tags] : id \in QueueIds, tags \in EnvTagLists}

\* job_conf.get('type', ''): the job's settings carry a type or none.
EnvTypes == {<<>>, QUEUE_TAG}

\* python_executor.py lines 141-151, powershell_executor.py lines 80-90: the
\* name of a record, the text of anything else, joined with commas.
TagNames(tags) == Join([i \in 1..Len(tags) |-> tags[i].name], COMMA)

\* The environment of the script's process.  bash_executor.py lines 20-23
\* pass no env to subprocess.run, and the script inherits the agent's;
\* python_executor.py lines 133-154 and powershell_executor.py lines 72-93
\* copy it and add the job's variables, those of the digest when a digest
\* was passed.
ScriptEnv(lang, job_name, type, job_digest) ==
  IF lang = "bash" THEN ParentEnv
  ELSE LET meta == ("JOB_NAME" :> job_name) @@ ("JOB_TYPE" :> type)
           digest == IF job_digest.given
                     THEN ("JOB_DIGEST_ID" :> job_digest.id)
                            @@ ("JOB_DIGEST_TAGS" :> TagNames(job_digest.tags))
                     ELSE <<>>
       IN IF job_digest.given THEN meta @@ digest @@ ParentEnv ELSE meta @@ ParentEnv

\* run_script of one of the executors starts the script.
EnvRun ==
  /\ \E lang \in Executors, type \in EnvTypes, job_digest \in EnvDigests :
       envCall' = [pc |-> "ran", lang |-> lang, job_name |-> JOB_NAME, type |-> type,
                   job_digest |-> job_digest,
                   env |-> ScriptEnv(lang, JOB_NAME, type, job_digest)]
  /\ UNCHANGED <<pageVars, taskVars, lockNames, cacheVars, exeVars, ctlVars, queueVars,
                 restarts, envVars, pod, lockfiles, setupVars>>

InitEnv ==
  /\ InitQueue(<<>>)
  /\ tsAware = FALSE
  /\ conf = CONF_DAY
  /\ threads = [a \in Agents |-> 0]
  /\ scripts = FleetResults

NextEnv == EnvRun

SpecEnv == InitEnv /\ [][NextEnv]_vars

(***************************************************************************)
(* Claim C38 (SpecEnv)                                                     *)
(***************************************************************************)
JobVariables == {"JOB_NAME", "JOB_TYPE", "JOB_DIGEST_ID", "JOB_DIGEST_TAGS"}

\* C38: every executor runs the script of a digest with the agent's
\* environment and, added to it, JOB_NAME, JOB_TYPE, JOB_DIGEST_ID and
\* JOB_DIGEST_TAGS, the last being the names of the digest's tags joined
\* with commas, whether a tag came as a string or as a record with a name.
C38_JobEnvironment ==
  (envCall.pc = "ran" /\ envCall.job_digest.given) =>
    /\ DOMAIN envCall.env = DOMAIN ParentEnv \cup JobVariables
    /\ \A n \in DOMAIN ParentEnv : envCall.env[n] = ParentEnv[n]
    /\ envCall.env["JOB_NAME"] = envCall.job_name
    /\ envCall.env["JOB_DIGEST_ID"] = envCall.job_digest.id
    /\ envCall.env["JOB_DIGEST_TAGS"] = TagNames(envCall.job_digest.tags)

(***************************************************************************)
(* SpecNames: the lockfiles of the jobs of one host.                       *)
(***************************************************************************)
\* "task-thread-"
TASK_THREAD == <<116, 97, 115, 107, 45, 116, 104, 114, 101, 97, 100, 45>>

\* "0", "1"
DIGIT_0 == <<48>>

DIGIT_1 == <<49>>

\* Line 819: key = f"task-thread-{thread_idx}".
TaskKey(thread_idx) == TASK_THREAD \o thread_idx

\* The names of the jobs of a configuration: "job", "x", "job-lock",
\* "job-task-thread".
JobNames == {JOB_NAME, TAG_X, LOCK_TAG, JOB_NAME \o DASH \o SubSeq(TASK_THREAD, 1, 11)}

\* The keys in use: digest ids (lines 433 and 455), the setup marker (lines
\* 735 and 757), the task threads (lines 819-822).
LockKeys == {ID41, DIGIT_0, SETUP_KEY, TaskKey(DIGIT_0), TaskKey(DIGIT_1)}

LockOwners == JobNames \X LockKeys

\* Two jobs of the host name their lockfiles.
NameLocks ==
  /\ \E a, b \in LockOwners :
       lockNames' = <<[owner |-> a, path |-> queue_lockfile_name(a[1], a[2])],
                      [owner |-> b, path |-> queue_lockfile_name(b[1], b[2])]>>
  /\ UNCHANGED <<pageVars, taskVars, envCall, cacheVars, exeVars, ctlVars, queueVars,
                 restarts, envVars, pod, lockfiles, setupVars>>

InitNames ==
  /\ InitQueue(<<>>)
  /\ tsAware = FALSE
  /\ conf = CONF_DAY
  /\ threads = [a \in Agents |-> 0]
  /\ scripts = FleetResults

NextNames == NameLocks

SpecNames == InitNames /\ [][NextNames]_vars

(***************************************************************************)
(* Claim C39 (SpecNames)                                                   *)
(***************************************************************************)
\* C39: the path of the lockfile is injective in (job name, key): two
\* different pairs, with job names and keys that contain '-' and with the
\* task-thread and setup keys, never have the same lockfile.
C39_LockfileInjective ==
  lockNames # <<>> =>
    (lockNames[1].owner # lockNames[2].owner => lockNames[1].path # lockNames[2].path)

====
